---- MODULE Spec2Model ----
(***************************************************************************)
(* Model of the llama-cpp-wasm-qwen3 Chrome extension:                     *)
(*   - the service worker (background.js): message broker, offscreen       *)
(*     document singleton, reply-handle correlator, persisted status;      *)
(*   - the offscreen document (offscreen.js, LlamaCpp and wllama variants) *)
(*   - the popup (popup.js, legacy and current variants);                  *)
(*   - the inference worker's stdout buffer (main-worker.js).              *)
(* Every await in the JavaScript is a point where other tasks may run;     *)
(* code between two awaits of one handler runs atomically.                 *)
(***************************************************************************)
EXTENDS Integers, Sequences, FiniteSets, TLC

(* ---------------------------- bounds ----------------------------------- *)
MaxReq == 2
MaxFaults == 1
MaxChunks == 1
MaxUnits == 5
MaxCalls == 2
MaxGen == 2
MaxSize == 3
MaxDigits == 1
MaxEvents == 3

(* ------------------------ program constants ---------------------------- *)
PUNCTUATION ==
  {33, 34, 35, 36, 37, 38, 39, 40, 41, 42, 43, 44, 45, 46, 47,
   58, 59, 60, 61, 62, 63, 64, 91, 92, 93, 94, 95, 96, 123, 124, 125, 126}

WHITESPACE == {32, 9, 10, 13, 11, 12}

FLUSH_CHARS == PUNCTUATION \cup WHITESPACE

(* Inputs handed to wllama's progressCallback: <<loaded, total>>. *)
ProgressInputs == {<<2, 5>>, <<9, 10>>}

(* Output units (byte codes) the engine may write: a b c d, space, full    *)
(* stop, and 0xC3, a byte that is not a character on its own.              *)
Units == {97, 98, 99, 100, 32, 46, 195}

ReqIds == 1..MaxReq

(* The builds of the extension: <<background/offscreen version, popup version>>. *)
Builds == {<<1, 1>>, <<1, 2>>, <<2, 2>>}

VARIABLES
  build,                    \* 1: background.js v1 + LlamaCpp offscreen; 2: v2 + wllama offscreen
  popupVer,                 \* 1: legacy popup.js; 2: current popup.js
  hasGetContexts,           \* chrome.runtime.getContexts is available
  creatingOffscreenPromise, \* 0 = null, else the creation awaited
  popupSendResponse,        \* 0 = null, else the request whose sendResponse is cached
  storage,                  \* chrome.storage.local: modelStatus, modelStatusMessage
  req,                      \* per request: kind, handler position, probe answer, ...
  replies,                  \* per request: payloads passed to its sendResponse
  nreq,                     \* requests issued so far
  creation,                 \* per createDocument call: unused/pending/ok/err/settled
  ncreate,                  \* createDocument calls so far
  hostAlive,                \* an offscreen document exists
  c2h,                      \* commands in flight background -> offscreen
  h2c,                      \* events in flight offscreen -> background
  c2p,                      \* UPDATE_MODEL_STATUS broadcasts in flight to the popup
  isInitializing,           \* offscreen.js
  modelLoaded,              \* offscreen.js modelSuccessfullyLoaded / modelLoaded
  engine,                   \* engine load: idle / loading / dead; progress reported so far
  ninit,                    \* engine initialisations started in this host
  wjobs,                    \* jobs queued in the worker / engine, head is running
  nchunk,                   \* chunks received for the running job
  currentModelResponse,     \* offscreen.js accumulator (chunk = job it belongs to)
  llamaCppInstance,         \* offscreen.js: an engine object was constructed
  popupOpen,                \* a popup document exists
  restored,                 \* the status the popup restored from storage when it was created
  sendDisabled,             \* popup v2 send button disabled
  loadDisabled,             \* popup v2 load button disabled
  ping,                     \* the popup's PING: none / sent / pong (sendResponse was called)
  faults,                   \* service worker restarts + host destructions + popup closings
  createWhileAlive,         \* history: createDocument was called while a host existed
  createFailed,             \* history: a createDocument call was rejected
  hostDestroyed,            \* history: the offscreen document was closed from outside
  initSent,                 \* history: OFFSCREEN_INIT_MODEL commands dispatched
  lastCoordWrite,           \* history: last modelStatus written by background.js
  scen,                     \* history: messages handled by background.js, while on the load scenario
  scenOut,                  \* history: status notifications made while on the load scenario
  stdoutBuffer,             \* main-worker.js
  written,                  \* units written by the engine during the current job
  chunks,                   \* chunks posted (WRITE_RESULT) during the current job
  wpc,                      \* worker position: idle / running / completed
  nwritten,                 \* units the engine has written since the worker started
  cachesApi,                \* utility.js: self.caches exists
  cacheStore,               \* utility.js: bytes the cache holds under the model URL, 0 = none
  lbr,                      \* utility.js: per loadBinaryResource call, its position and effects
  gen,                      \* LlamaCpp: per generate() call, its promise, closure variables and timer
  write_result_callback,    \* LlamaCpp: 0 = the constructor's callback, k = the one generate call k installed
  on_complete_callback,     \* LlamaCpp: 0 = the constructor's callback, k = the one generate call k installed
  init_callback,            \* LlamaCpp: base (the constructor's) / wrapped (by load) / noop
  worker,                   \* LlamaCpp: this.worker, alive / null
  wruns,                    \* runs posted to the worker and not completed, head is running
  wrchunk,                  \* chunks the worker emitted for the running run
  initialized,              \* the worker has posted INITIALIZED
  loadPromise,              \* LlamaCpp.load(): none / pending / resolved / rejected
  loadTimer,                \* LlamaCpp.load(): none / armed / fired
  httpReq,                  \* server.js: the request being answered (file, Range header)
  httpRes,                  \* server.js: the status and headers written for it
  modelPath,                \* chrome.storage.local: modelPath (unset / old / current)
  installLog                \* history: reasons of the onInstalled events handled

coordVars == <<creatingOffscreenPromise, popupSendResponse, storage, req, replies, nreq>>
browserVars == <<creation, ncreate, hostAlive, c2h, h2c, c2p>>
hostVars == <<isInitializing, modelLoaded, llamaCppInstance, engine, ninit, wjobs, nchunk, currentModelResponse>>
popupVars == <<popupOpen, restored, sendDisabled, loadDisabled>>
pingVars == <<ping>>
histVars == <<faults, createWhileAlive, createFailed, hostDestroyed, initSent, lastCoordWrite, scen, scenOut>>
envVars == <<build, popupVer, hasGetContexts>>
workerVars == <<stdoutBuffer, written, chunks, wpc, nwritten>>
loaderVars == <<cachesApi, cacheStore, lbr>>
llamaVars == <<gen, write_result_callback, on_complete_callback, init_callback, worker, wruns, wrchunk, initialized, loadPromise, loadTimer>>
serverVars == <<httpReq, httpRes>>
installVars == <<modelPath, installLog>>
libVars == <<loaderVars, llamaVars, serverVars, installVars>>
appVars == <<envVars, coordVars, browserVars, hostVars, popupVars, pingVars, histVars, workerVars>>
vars == <<appVars, libVars>>

(* ------------------------------ helpers -------------------------------- *)
Msg(k, n) == [k |-> k, n |-> n]

Payload(t, job, st) == [t |-> t, job |-> job, st |-> st]

Cmd(t, job) == [t |-> t, job |-> job]

Ev(t, job, n, resp) == [t |-> t, job |-> job, n |-> n, resp |-> resp]

(* A handler that returned keeps no local variables. *)
Done(q) == [q EXCEPT !.pc = "done", !.probe = FALSE, !.tk = 0, !.saw = FALSE]

NoReq == [kind |-> "none", pc |-> "idle", probe |-> FALSE, tk |-> 0, cb |-> "none", saw |-> FALSE, wl |-> FALSE]

Off == <<[e |-> "off", n |-> 0]>>

(* Math.round((loaded / total) * 100), for non-negative arguments. *)
Percent(loaded, total) == (200 * loaded + total) \div (2 * total)

(* The load scenario: LOAD_MODEL, OFFSCREEN_PROGRESS, OFFSCREEN_PROGRESS,  *)
(* OFFSCREEN_MODEL_LOADED, handled in that order from the initial state.   *)
ScenPattern == <<"LOAD", "PROGRESS", "PROGRESS", "LOADED">>

ScenStep(sc, e, n) ==
  IF sc # Off /\ Len(sc) < Len(ScenPattern) /\ ScenPattern[Len(sc) + 1] = e
  THEN Append(sc, [e |-> e, n |-> n])
  ELSE Off

(* ------------------- background.js: functional core -------------------- *)
(* The fields a handler of background.js reads and writes. *)
CS ==
  [psr |-> popupSendResponse, tkt |-> creatingOffscreenPromise, replies |-> replies,
   req |-> req, c2p |-> c2p, storage |-> storage, c2h |-> c2h, creation |-> creation,
   ncreate |-> ncreate, out |-> scenOut, lcw |-> lastCoordWrite, init |-> initSent,
   cwa |-> createWhileAlive]

(* A stored sendResponse may throw only once its popup is gone. *)
ThrowSet == IF popupSendResponse # 0 /\ req[popupSendResponse].cb = "dead" THEN BOOLEAN ELSE {FALSE}

sendResponse(s, r, payload) == [s EXCEPT !.replies[r] = Append(@, payload)]

(* chrome.runtime.sendMessage(payload) towards the popup: best effort. *)
BroadcastStatus(s, payload) ==
  [s EXCEPT !.c2p = IF popupOpen THEN Append(@, payload) ELSE @,
            !.out = Append(@, [ch |-> "broadcast", status |-> payload.status, msg |-> payload.msg])]

(* An updatePopupStatus whose catch block would not broadcast. *)
updatePopupStatus_noFallback(s, status, msg, thr) ==
  LET payload == [status |-> status, msg |-> msg]
      s1 == IF s.psr # 0
            THEN IF thr
                 THEN [s EXCEPT !.psr = 0]
                 ELSE [sendResponse(s, s.psr, Payload("status", 0, status))
                        EXCEPT !.out = Append(@, [ch |-> "handle", status |-> status, msg |-> msg])]
            ELSE BroadcastStatus(s, payload)
  IN [s1 EXCEPT !.storage = [modelStatus |-> status, modelStatusMessage |-> msg],
                !.lcw = status]

updatePopupStatus(s, status, msg, thr) ==
  LET payload == [status |-> status, msg |-> msg]
      s1 == IF s.psr # 0
            THEN IF thr
                 THEN BroadcastStatus([s EXCEPT !.psr = 0], payload)
                 ELSE [sendResponse(s, s.psr, Payload("status", 0, status))
                        EXCEPT !.out = Append(@, [ch |-> "handle", status |-> status, msg |-> msg])]
            ELSE BroadcastStatus(s, payload)
  IN [s1 EXCEPT !.storage = [modelStatus |-> status, modelStatusMessage |-> msg],
                !.lcw = status]

(* chrome.runtime.sendMessage(command) towards the offscreen document. *)
SendToHost(s, cmd) == [s EXCEPT !.c2h = IF hostAlive THEN Append(@, cmd) ELSE @]

(* A coordinator that would dispatch OFFSCREEN_INIT_MODEL only once. *)
FinishLoadOk_once(s, r) ==
  LET s1 == IF s.init = 0 THEN [SendToHost(s, Cmd("INIT", 0)) EXCEPT !.init = @ + 1] ELSE s
  IN [sendResponse(s1, r, Payload("started", 0, "")) EXCEPT !.req[r] = Done(@)]

(* A LOAD_MODEL handler that would reply without dispatching the command. *)
FinishLoadOk_noDispatch(s, r) ==
  [sendResponse(s, r, Payload("started", 0, "")) EXCEPT !.req[r] = Done(@)]

(* LOAD_MODEL after setupOffscreenDocument() returned. *)
FinishLoadOk(s, r) ==
  LET s1 == SendToHost(s, Cmd("INIT", 0))
      s2 == [s1 EXCEPT !.init = @ + 1]
  IN [sendResponse(s2, r, Payload("started", 0, "")) EXCEPT !.req[r] = Done(@)]

(* A catch block that would reply without setting the status. *)
FinishLoadErr_noStatus(s, r, thr) ==
  [sendResponse(s, r, Payload("fail", 0, "")) EXCEPT !.req[r] = Done(@)]

(* LOAD_MODEL after setupOffscreenDocument() threw. *)
FinishLoadErr(s, r, thr) ==
  LET s1 == updatePopupStatus(s, "error", Msg("failed", 0), thr)
  IN [sendResponse(s1, r, Payload("fail", 0, "")) EXCEPT !.req[r] = Done(@)]

(* setupOffscreenDocument() from the point where the probe has answered p. *)
setupOffscreenDocument(s, r, p) ==
  IF p
  THEN FinishLoadOk(s, r)
  ELSE IF s.tkt # 0
  THEN [s EXCEPT !.req[r].pc = "awaitTicket", !.req[r].tk = s.tkt]
  ELSE LET c == s.ncreate + 1
       IN [s EXCEPT !.tkt = c, !.ncreate = c, !.creation[c] = "pending",
                    !.cwa = @ \/ hostAlive,
                    !.req[r].pc = "creating", !.req[r].tk = c]

(* A SEND_PROMPT branch that would forward without looking at the probe. *)
SendPromptAfterProbe_noCheck(s, r, p) ==
  [SendToHost([s EXCEPT !.psr = r], Cmd("RUN", r)) EXCEPT !.req[r] = Done(@)]

(* SEND_PROMPT from the point where the probe has answered p. *)
SendPromptAfterProbe(s, r, p) ==
  IF ~p
  THEN [sendResponse(s, r, Payload("notready", 0, "")) EXCEPT !.req[r] = Done(@)]
  ELSE [SendToHost([s EXCEPT !.psr = r], Cmd("RUN", r)) EXCEPT !.req[r] = Done(@)]

AfterProbe(s, r, p) ==
  IF s.req[r].kind = "LOAD" THEN setupOffscreenDocument(s, r, p) ELSE SendPromptAfterProbe(s, r, p)

(* The continuations that run when the createDocument promise c settles:   *)
(* the creator's finally clears the ticket, then every awaiting LOAD_MODEL *)
(* handler goes on.                                                        *)
RECURSIVE ResumeAwaiting(_, _, _, _, _)
ResumeAwaiting(s, c, ok, thr, r) ==
  IF r > MaxReq THEN s
  ELSE LET hit == s.req[r].pc \in {"creating", "awaitTicket"} /\ s.req[r].tk = c
           s1 == IF ~hit THEN s
                 ELSE IF ok THEN FinishLoadOk(s, r)
                 ELSE FinishLoadErr(s, r, thr)
       IN ResumeAwaiting(s1, c, ok, thr, r + 1)

(* A creator whose finally would clear the ticket only after a success. *)
SettleCreation_keepOnError(s, c, ok, thr) ==
  LET creatorAlive == \E r \in ReqIds : s.req[r].pc = "creating" /\ s.req[r].tk = c
      s1 == [s EXCEPT !.tkt = IF creatorAlive /\ ok THEN 0 ELSE @, !.creation[c] = "settled"]
  IN ResumeAwaiting(s1, c, ok, thr, 1)

SettleCreation(s, c, ok, thr) ==
  LET creatorAlive == \E r \in ReqIds : s.req[r].pc = "creating" /\ s.req[r].tk = c
      s1 == [s EXCEPT !.tkt = IF creatorAlive THEN 0 ELSE @, !.creation[c] = "settled"]
  IN ResumeAwaiting(s1, c, ok, thr, 1)

(* Job-event branches that would also announce an error status. *)
DeliverJobEvent_withStatus(s, t, job, thr) ==
  LET s1 == IF s.psr # 0
            THEN [(IF thr THEN s ELSE sendResponse(s, s.psr, Payload(t, job, ""))) EXCEPT !.psr = 0]
            ELSE s
  IN IF t = "result" THEN s1 ELSE updatePopupStatus(s1, "error", Msg("runfailed", 0), FALSE)

(* Job-event branches that would answer the submitter when no handle is stored. *)
DeliverJobEvent_lateReply(s, t, job, thr) ==
  IF s.psr # 0
  THEN [(IF thr THEN s ELSE sendResponse(s, s.psr, Payload(t, job, ""))) EXCEPT !.psr = 0]
  ELSE sendResponse(s, job, Payload(t, job, ""))

(* Job-event branches that would announce an error when the handle throws. *)
DeliverJobEvent_throwSetsError(s, t, job, thr) ==
  IF s.psr # 0
  THEN IF thr
       THEN updatePopupStatus([s EXCEPT !.psr = 0], "error", Msg("runfailed", 0), FALSE)
       ELSE [sendResponse(s, s.psr, Payload(t, job, "")) EXCEPT !.psr = 0]
  ELSE s

(* Job-event branches that would keep the handle when it throws. *)
DeliverJobEvent_keepOnThrow(s, t, job, thr) ==
  IF s.psr # 0
  THEN IF thr THEN s ELSE [sendResponse(s, s.psr, Payload(t, job, "")) EXCEPT !.psr = 0]
  ELSE s

(* OFFSCREEN_MODEL_RESPONSE / RUN_ERROR / NOT_LOADED_FOR_PROMPT. *)
DeliverJobEvent(s, t, job, thr) ==
  IF s.psr # 0
  THEN [(IF thr THEN s ELSE sendResponse(s, s.psr, Payload(t, job, ""))) EXCEPT !.psr = 0]
  ELSE s

(* A listener that would not let OFFSCREEN_ALREADY_INITIALIZING override 'error'. *)
HandleHostEvent_keepError(s, e, thr) ==
  CASE e.t = "LOADED" -> updatePopupStatus(s, "loaded", Msg("ready", 0), thr)
    [] e.t = "PROGRESS" -> IF build = 2
                           THEN updatePopupStatus(s, "loading", Msg("percent", e.n), thr)
                           ELSE s
    [] e.t = "RESPONSE" -> DeliverJobEvent(s, "result", e.job, thr)
    [] e.t = "INIT_ERROR" -> updatePopupStatus(s, "error", Msg("initfailed", 0), thr)
    [] e.t = "RUN_ERROR" -> DeliverJobEvent(s, "runerr", e.job, thr)
    [] e.t = "NOT_LOADED" -> DeliverJobEvent(s, "notloaded", e.job, thr)
    [] e.t = "ALREADY" -> IF s.lcw = "error" THEN s
                          ELSE updatePopupStatus(s, "loading", Msg("inprogress", 0), thr)

(* A listener without the OFFSCREEN_PROGRESS branch. *)
HandleHostEvent_noProgress(s, e, thr) ==
  CASE e.t = "LOADED" -> updatePopupStatus(s, "loaded", Msg("ready", 0), thr)
    [] e.t = "PROGRESS" -> s
    [] e.t = "RESPONSE" -> DeliverJobEvent(s, "result", e.job, thr)
    [] e.t = "INIT_ERROR" -> updatePopupStatus(s, "error", Msg("initfailed", 0), thr)
    [] e.t = "RUN_ERROR" -> DeliverJobEvent(s, "runerr", e.job, thr)
    [] e.t = "NOT_LOADED" -> DeliverJobEvent(s, "notloaded", e.job, thr)
    [] e.t = "ALREADY" -> updatePopupStatus(s, "loading", Msg("inprogress", 0), thr)

(* The onMessage branches for messages coming from the offscreen document. *)
HandleHostEvent(s, e, thr) ==
  CASE e.t = "LOADED" -> updatePopupStatus(s, "loaded", Msg("ready", 0), thr)
    [] e.t = "PROGRESS" -> IF build = 2
                           THEN updatePopupStatus(s, "loading", Msg("percent", e.n), thr)
                           ELSE s
    [] e.t = "RESPONSE" -> DeliverJobEvent(s, "result", e.job, thr)
    [] e.t = "INIT_ERROR" -> updatePopupStatus(s, "error", Msg("initfailed", 0), thr)
    [] e.t = "RUN_ERROR" -> DeliverJobEvent(s, "runerr", e.job, thr)
    [] e.t = "NOT_LOADED" -> DeliverJobEvent(s, "notloaded", e.job, thr)
    [] e.t = "ALREADY" -> updatePopupStatus(s, "loading", Msg("inprogress", 0), thr)

(* PING: sendResponse({ message: 'PONG ...' }); return false. *)
Ping_dropsHandle(s) == [s EXCEPT !.psr = 0]

Ping(s) == s

Commit(s) ==
  /\ popupSendResponse' = s.psr
  /\ creatingOffscreenPromise' = s.tkt
  /\ replies' = s.replies
  /\ req' = s.req
  /\ c2p' = s.c2p
  /\ storage' = s.storage
  /\ c2h' = s.c2h
  /\ creation' = s.creation
  /\ ncreate' = s.ncreate
  /\ lastCoordWrite' = s.lcw
  /\ initSent' = s.init
  /\ createWhileAlive' = s.cwa

(* A message was handled by background.js: advance the scenario history. *)
CommitEvent(s, e, n) ==
  /\ Commit(s)
  /\ scen' = ScenStep(scen, e, n)
  /\ scenOut' = IF scen' = Off THEN <<>> ELSE s.out

(* A continuation of background.js ran: no new message. *)
CommitCont(s) ==
  /\ Commit(s)
  /\ scen' = scen
  /\ scenOut' = IF scen = Off THEN <<>> ELSE s.out

(* ------------------------------ popup.js ------------------------------- *)
(* DOMContentLoaded: restore the persisted status. *)
PopupOpen ==
  /\ ~popupOpen
  /\ popupOpen' = TRUE
  /\ restored' = storage.modelStatus
  /\ sendDisabled' = FALSE
  /\ loadDisabled' = FALSE
  /\ ping' = "sent"
  /\ UNCHANGED <<envVars, coordVars, browserVars, hostVars, histVars, workerVars, libVars>>

(* The popup document goes away: its listeners and reply callbacks die. *)
PopupClose ==
  /\ popupOpen
  /\ faults < MaxFaults
  /\ faults' = faults + 1
  /\ popupOpen' = FALSE
  /\ c2p' = <<>>
  /\ req' = [r \in ReqIds |-> IF req[r].cb \in {"wait", "done"} THEN [req[r] EXCEPT !.cb = "dead"] ELSE req[r]]
  /\ UNCHANGED <<restored, sendDisabled, loadDisabled>>
  /\ UNCHANGED <<envVars, creatingOffscreenPromise, popupSendResponse, storage, replies, nreq>>
  /\ UNCHANGED <<creation, ncreate, hostAlive, c2h, h2c>>
  /\ UNCHANGED <<hostVars, workerVars, libVars>>
  /\ UNCHANGED <<createWhileAlive, createFailed, hostDestroyed, initSent, lastCoordWrite, scen, scenOut>>
  /\ UNCHANGED ping

NewReq(kind) == [NoReq EXCEPT !.kind = kind, !.pc = "sent", !.cb = "wait"]

(* loadModelButton click. *)
ClickLoad ==
  /\ popupOpen
  /\ nreq < MaxReq
  /\ popupVer = 2 => ~loadDisabled
  /\ nreq' = nreq + 1
  /\ req' = [req EXCEPT ![nreq + 1] = NewReq("LOAD")]
  /\ storage' = IF popupVer = 1 THEN [storage EXCEPT !.modelStatus = "loading"] ELSE storage
  /\ loadDisabled' = IF popupVer = 2 THEN TRUE ELSE loadDisabled
  /\ UNCHANGED <<popupOpen, restored, sendDisabled>>
  /\ UNCHANGED <<envVars, creatingOffscreenPromise, popupSendResponse, replies>>
  /\ UNCHANGED <<browserVars, hostVars, histVars, workerVars, libVars>>
  /\ UNCHANGED ping

(* sendButton click with a non-empty prompt. *)
ClickSend ==
  /\ popupOpen
  /\ nreq < MaxReq
  /\ popupVer = 2 => ~sendDisabled
  /\ nreq' = nreq + 1
  /\ req' = [req EXCEPT ![nreq + 1] = NewReq("SEND")]
  /\ sendDisabled' = IF popupVer = 2 THEN TRUE ELSE sendDisabled
  /\ UNCHANGED <<popupOpen, restored, loadDisabled>>
  /\ UNCHANGED <<envVars, creatingOffscreenPromise, popupSendResponse, storage, replies>>
  /\ UNCHANGED <<browserVars, hostVars, histVars, workerVars, libVars>>
  /\ UNCHANGED ping

(* onMessage UPDATE_MODEL_STATUS in the popup. *)
PopupRecvStatus ==
  /\ popupOpen
  /\ c2p # <<>>
  /\ LET m == Head(c2p)
     IN /\ storage' = IF popupVer = 1 THEN [storage EXCEPT !.modelStatus = m.status] ELSE storage
        /\ loadDisabled' = IF popupVer = 2 THEN m.status = "loading" ELSE loadDisabled
        /\ sendDisabled' = IF popupVer = 2 THEN m.status # "loaded" ELSE sendDisabled
  /\ c2p' = Tail(c2p)
  /\ UNCHANGED <<popupOpen, restored>>
  /\ UNCHANGED <<envVars, creatingOffscreenPromise, popupSendResponse, req, replies, nreq>>
  /\ UNCHANGED <<creation, ncreate, hostAlive, c2h, h2c>>
  /\ UNCHANGED <<hostVars, histVars, workerVars, libVars>>
  /\ UNCHANGED ping

(* What the sender's callback sees: the first sendResponse payload, or      *)
(* chrome.runtime.lastError when the service worker died before replying.  *)
ReplyFailed(r) ==
  IF replies[r] = <<>> THEN TRUE ELSE replies[r][1].t \notin {"started", "result", "pong"}

(* The callback passed to chrome.runtime.sendMessage runs. *)
PopupRecvReply(r) ==
  /\ popupOpen
  /\ req[r].cb = "wait"
  /\ replies[r] # <<>> \/ req[r].pc = "killed"
  /\ req' = [req EXCEPT ![r].cb = "done"]
  /\ IF req[r].kind = "LOAD"
     THEN /\ storage' = IF ReplyFailed(r) /\ popupVer = 1
                        THEN [storage EXCEPT !.modelStatus = "error"] ELSE storage
          /\ loadDisabled' = IF ReplyFailed(r) /\ popupVer = 2 THEN FALSE ELSE loadDisabled
          /\ UNCHANGED sendDisabled
     ELSE /\ sendDisabled' = IF popupVer = 2 THEN FALSE ELSE sendDisabled
          /\ UNCHANGED <<storage, loadDisabled>>
  /\ UNCHANGED <<popupOpen, restored>>
  /\ UNCHANGED <<envVars, creatingOffscreenPromise, popupSendResponse, replies, nreq>>
  /\ UNCHANGED <<browserVars, hostVars, histVars, workerVars, libVars>>
  /\ UNCHANGED ping

(* ----------------------- background.js: actions ------------------------ *)
(* onMessage for a message of the popup, up to the first real await. *)
CoordRecv(r) ==
  /\ req[r].pc = "sent"
  /\ \A q \in ReqIds : q < r => req[q].pc # "sent"
  /\ \E thr \in ThrowSet :
       LET s0 == [CS EXCEPT !.req[r].saw = hostAlive,
                            !.req[r].wl = (req[r].kind = "LOAD" /\ storage.modelStatus = "loading")]
           s1 == IF req[r].kind = "LOAD"
                 THEN updatePopupStatus(s0, "loading", Msg("init", 0), thr)
                 ELSE s0
           s2 == IF hasGetContexts
                 THEN [s1 EXCEPT !.req[r].pc = "probing"]
                 ELSE AfterProbe(s1, r, FALSE)
       IN CommitEvent(s2, req[r].kind, 0)
  /\ UNCHANGED <<envVars, nreq, hostAlive, h2c, hostVars, popupVars, workerVars, libVars>>
  /\ UNCHANGED <<faults, createFailed, hostDestroyed>>
  /\ UNCHANGED ping

(* onMessage for the PING the popup sends when it is created. *)
CoordRecvPing ==
  /\ ping = "sent"
  /\ ping' = "pong"
  /\ Commit(Ping(CS))
  /\ UNCHANGED <<scen, scenOut>>
  /\ UNCHANGED <<envVars, nreq, hostAlive, h2c, hostVars, popupVars, workerVars, libVars>>
  /\ UNCHANGED <<faults, createFailed, hostDestroyed>>

(* chrome.runtime.getContexts answers. *)
ProbeAnswer(r) ==
  /\ req[r].pc = "probing"
  /\ req' = [req EXCEPT ![r].pc = "probed", ![r].probe = hostAlive]
  /\ UNCHANGED <<envVars, creatingOffscreenPromise, popupSendResponse, storage, replies, nreq>>
  /\ UNCHANGED <<browserVars, hostVars, popupVars, histVars, workerVars, libVars>>
  /\ UNCHANGED ping

(* The handler goes on after `await hasOffscreenDocument(...)`. *)
Resume(r) ==
  /\ req[r].pc = "probed"
  /\ CommitCont(AfterProbe(CS, r, req[r].probe))
  /\ UNCHANGED <<envVars, nreq, hostAlive, h2c, hostVars, popupVars, workerVars, libVars>>
  /\ UNCHANGED <<faults, createFailed, hostDestroyed>>
  /\ UNCHANGED ping

FreshHost ==
  /\ isInitializing' = FALSE
  /\ modelLoaded' = FALSE
  /\ llamaCppInstance' = FALSE
  /\ engine' = [st |-> "idle", p |-> 0]
  /\ ninit' = 0
  /\ wjobs' = <<>>
  /\ nchunk' = 0
  /\ currentModelResponse' = <<>>

(* The browser finishes a chrome.offscreen.createDocument call: only a     *)
(* single offscreen document may exist, and creation itself may fail.      *)
BrowserCreate(c) ==
  /\ creation[c] = "pending"
  /\ \/ /\ ~hostAlive
        /\ hostAlive' = TRUE
        /\ creation' = [creation EXCEPT ![c] = "ok"]
        /\ req' = [r \in ReqIds |-> IF req[r].pc \in {"probing", "probed"}
                                    THEN [req[r] EXCEPT !.saw = TRUE] ELSE req[r]]
        /\ c2h' = <<>>
        /\ FreshHost
        /\ UNCHANGED createFailed
     \/ /\ creation' = [creation EXCEPT ![c] = "err"]
        /\ createFailed' = TRUE
        /\ UNCHANGED <<hostAlive, req, c2h, hostVars>>
  /\ UNCHANGED <<envVars, creatingOffscreenPromise, popupSendResponse, storage, replies, nreq>>
  /\ UNCHANGED <<ncreate, h2c, c2p, popupVars, workerVars, libVars>>
  /\ UNCHANGED <<faults, createWhileAlive, hostDestroyed, initSent, lastCoordWrite, scen, scenOut>>
  /\ UNCHANGED ping

(* The createDocument promise settles in the service worker. *)
CreateSettle(c) ==
  /\ creation[c] \in {"ok", "err"}
  /\ \E thr \in ThrowSet : CommitCont(SettleCreation(CS, c, creation[c] = "ok", thr))
  /\ UNCHANGED <<envVars, nreq, hostAlive, h2c, hostVars, popupVars, workerVars, libVars>>
  /\ UNCHANGED <<faults, createFailed, hostDestroyed>>
  /\ UNCHANGED ping

(* onMessage for a message of the offscreen document. *)
CoordRecvHost ==
  /\ h2c # <<>>
  /\ \E thr \in ThrowSet :
       CommitEvent(HandleHostEvent(CS, Head(h2c), thr), Head(h2c).t, Head(h2c).n)
  /\ h2c' = Tail(h2c)
  /\ UNCHANGED <<envVars, nreq, hostAlive, hostVars, popupVars, workerVars, libVars>>
  /\ UNCHANGED <<faults, createFailed, hostDestroyed>>
  /\ UNCHANGED ping

(* The browser stops the idle service worker and starts it again on the    *)
(* next event: module state and running handlers are lost.                 *)
CoordinatorRestart ==
  /\ faults < MaxFaults
  /\ faults' = faults + 1
  /\ creatingOffscreenPromise' = 0
  /\ popupSendResponse' = 0
  /\ req' = [r \in ReqIds |->
               IF req[r].pc \in {"probing", "probed", "awaitTicket", "creating"}
                  \/ (req[r].pc = "done" /\ replies[r] = <<>>)
               THEN [Done(req[r]) EXCEPT !.pc = "killed"] ELSE req[r]]
  /\ scen' = Off
  /\ scenOut' = <<>>
  /\ UNCHANGED <<envVars, storage, replies, nreq, browserVars, hostVars, popupVars, workerVars, libVars>>
  /\ UNCHANGED <<createWhileAlive, createFailed, hostDestroyed, initSent, lastCoordWrite>>
  /\ UNCHANGED ping

(* The offscreen document is closed from outside the extension's code. *)
HostDestroy ==
  /\ hostAlive
  /\ faults < MaxFaults
  /\ faults' = faults + 1
  /\ hostAlive' = FALSE
  /\ c2h' = <<>>
  /\ FreshHost
  /\ hostDestroyed' = TRUE
  /\ UNCHANGED <<envVars, coordVars, creation, ncreate, h2c, c2p, popupVars, workerVars, libVars>>
  /\ UNCHANGED <<createWhileAlive, createFailed, initSent, lastCoordWrite, scen, scenOut>>
  /\ UNCHANGED ping

(* ----------------------------- offscreen.js ---------------------------- *)
sendMessageToBackground(e) == h2c' = Append(h2c, e)

(* An initializeLlama without the "already loaded" test. *)
initializeLlama_noLoadedCheck(ctorThrows) ==
  IF isInitializing
  THEN /\ sendMessageToBackground(Ev("ALREADY", 0, 0, <<>>))
       /\ UNCHANGED <<isInitializing, modelLoaded, llamaCppInstance, engine, ninit>>
  ELSE IF ctorThrows
  THEN /\ isInitializing' = FALSE
       /\ modelLoaded' = FALSE
       /\ sendMessageToBackground(Ev("INIT_ERROR", 0, 0, <<>>))
       /\ UNCHANGED <<llamaCppInstance, engine, ninit>>
  ELSE /\ isInitializing' = TRUE
       /\ modelLoaded' = FALSE
       /\ llamaCppInstance' = TRUE
       /\ engine' = [st |-> "loading", p |-> 0]
       /\ ninit' = ninit + 1
       /\ UNCHANGED h2c

(* initializeLlama (build 1) / initializeModel (build 2).  ctorThrows: the *)
(* LlamaCpp constructor throws (build 1 only).                             *)
initializeLlama(ctorThrows) ==
  IF isInitializing
  THEN /\ sendMessageToBackground(Ev("ALREADY", 0, 0, <<>>))
       /\ UNCHANGED <<isInitializing, modelLoaded, llamaCppInstance, engine, ninit>>
  ELSE IF modelLoaded
  THEN /\ sendMessageToBackground(Ev("LOADED", 0, 0, <<>>))
       /\ UNCHANGED <<isInitializing, modelLoaded, llamaCppInstance, engine, ninit>>
  ELSE IF ctorThrows
  THEN /\ isInitializing' = FALSE
       /\ modelLoaded' = FALSE
       /\ sendMessageToBackground(Ev("INIT_ERROR", 0, 0, <<>>))
       /\ UNCHANGED <<llamaCppInstance, engine, ninit>>
  ELSE /\ isInitializing' = TRUE
       /\ modelLoaded' = FALSE
       /\ llamaCppInstance' = TRUE
       /\ engine' = [st |-> "loading", p |-> 0]
       /\ ninit' = ninit + 1
       /\ UNCHANGED h2c

(* A runLlama that starts the run whatever the state of the model. *)
runLlama_noCheck(job) ==
  /\ currentModelResponse' = IF build = 1 THEN <<>> ELSE currentModelResponse
  /\ wjobs' = Append(wjobs, job)
  /\ UNCHANGED h2c

(* runLlama (build 1) / runPrompt (build 2). *)
runLlama(job) ==
  IF ~modelLoaded \/ ~llamaCppInstance
  THEN /\ sendMessageToBackground(Ev("NOT_LOADED", job, 0, <<>>))
       /\ UNCHANGED <<wjobs, currentModelResponse>>
  ELSE IF build = 1 /\ isInitializing
  THEN /\ sendMessageToBackground(Ev("NOT_LOADED", job, 0, <<>>))
       /\ UNCHANGED <<wjobs, currentModelResponse>>
  ELSE /\ currentModelResponse' = IF build = 1 THEN <<>> ELSE currentModelResponse
       /\ wjobs' = Append(wjobs, job)
       /\ UNCHANGED h2c

(* onMessage in the offscreen document. *)
HostRecv ==
  /\ hostAlive
  /\ c2h # <<>>
  /\ c2h' = Tail(c2h)
  /\ IF Head(c2h).t = "INIT"
     THEN /\ \E ctorThrows \in (IF build = 1 THEN BOOLEAN ELSE {FALSE}) : initializeLlama(ctorThrows)
          /\ UNCHANGED <<wjobs, currentModelResponse>>
     ELSE /\ runLlama(Head(c2h).job)
          /\ UNCHANGED <<isInitializing, modelLoaded, llamaCppInstance, engine, ninit>>
  /\ UNCHANGED <<nchunk>>
  /\ UNCHANGED <<envVars, coordVars, creation, ncreate, hostAlive, c2p, popupVars, histVars, workerVars, libVars>>
  /\ UNCHANGED ping

(* wllama progressCallback({loaded, total}) (build 2). *)
EngineProgress ==
  /\ hostAlive
  /\ build = 2
  /\ engine.st = "loading"
  /\ \E in \in ProgressInputs :
       /\ Percent(in[1], in[2]) > engine.p
       /\ engine' = [engine EXCEPT !.p = Percent(in[1], in[2])]
       /\ sendMessageToBackground(Ev("PROGRESS", 0, Percent(in[1], in[2]), <<>>))
  /\ UNCHANGED <<isInitializing, modelLoaded, llamaCppInstance, ninit, wjobs, nchunk, currentModelResponse>>
  /\ UNCHANGED <<envVars, coordVars, creation, ncreate, hostAlive, c2h, c2p, popupVars, histVars, workerVars, libVars>>
  /\ UNCHANGED ping

(* init_callback (build 1) / loadModelFromUrl resolved (build 2). *)
EngineLoaded ==
  /\ hostAlive
  /\ engine.st = "loading"
  /\ engine' = [st |-> "idle", p |-> 0]
  /\ isInitializing' = FALSE
  /\ modelLoaded' = TRUE
  /\ sendMessageToBackground(Ev("LOADED", 0, 0, <<>>))
  /\ UNCHANGED <<llamaCppInstance, ninit, wjobs, nchunk, currentModelResponse>>
  /\ UNCHANGED <<envVars, coordVars, creation, ncreate, hostAlive, c2h, c2p, popupVars, histVars, workerVars, libVars>>
  /\ UNCHANGED ping

(* The engine fails to load.  Build 1: the worker reports through onerror  *)
(* or action.ERROR, and no error_callback was given to LlamaCpp, so the    *)
(* offscreen document hears nothing.  Build 2: loadModelFromUrl rejects.   *)
EngineFail ==
  /\ hostAlive
  /\ engine.st = "loading"
  /\ IF build = 1
     THEN /\ engine' = [engine EXCEPT !.st = "dead"]
          /\ UNCHANGED <<isInitializing, h2c>>
     ELSE /\ engine' = [st |-> "idle", p |-> 0]
          /\ isInitializing' = FALSE
          /\ sendMessageToBackground(Ev("INIT_ERROR", 0, 0, <<>>))
  /\ UNCHANGED <<modelLoaded, llamaCppInstance, ninit, wjobs, nchunk, currentModelResponse>>
  /\ UNCHANGED <<envVars, coordVars, creation, ncreate, hostAlive, c2h, c2p, popupVars, histVars, workerVars, libVars>>
  /\ UNCHANGED ping

(* write_result_callback (build 1): a chunk of the running job arrives. *)
JobChunk ==
  /\ hostAlive
  /\ build = 1
  /\ wjobs # <<>>
  /\ nchunk < MaxChunks
  /\ nchunk' = nchunk + 1
  /\ currentModelResponse' = Append(currentModelResponse, Head(wjobs))
  /\ UNCHANGED <<isInitializing, modelLoaded, llamaCppInstance, engine, ninit, wjobs>>
  /\ UNCHANGED <<envVars, coordVars, browserVars, popupVars, histVars, workerVars, libVars>>
  /\ UNCHANGED ping

(* on_complete_callback (build 1) / createCompletion resolved (build 2). *)
JobComplete ==
  /\ hostAlive
  /\ wjobs # <<>>
  /\ sendMessageToBackground(Ev("RESPONSE", Head(wjobs), 0,
          IF build = 1 THEN currentModelResponse ELSE <<Head(wjobs)>>))
  /\ currentModelResponse' = IF build = 1 THEN <<>> ELSE currentModelResponse
  /\ wjobs' = Tail(wjobs)
  /\ nchunk' = 0
  /\ UNCHANGED <<isInitializing, modelLoaded, llamaCppInstance, engine, ninit>>
  /\ UNCHANGED <<envVars, coordVars, creation, ncreate, hostAlive, c2h, c2p, popupVars, histVars, workerVars, libVars>>
  /\ UNCHANGED ping

(* createCompletion rejected (build 2). *)
JobError ==
  /\ hostAlive
  /\ build = 2
  /\ wjobs # <<>>
  /\ sendMessageToBackground(Ev("RUN_ERROR", Head(wjobs), 0, <<>>))
  /\ wjobs' = Tail(wjobs)
  /\ UNCHANGED <<isInitializing, modelLoaded, llamaCppInstance, engine, ninit, nchunk, currentModelResponse>>
  /\ UNCHANGED <<envVars, coordVars, creation, ncreate, hostAlive, c2h, c2p, popupVars, histVars, workerVars, libVars>>
  /\ UNCHANGED ping

(* ------------------------------ system --------------------------------- *)
(* The service worker starts with its module variables null.  It starts   *)
(* either right after chrome.runtime.onInstalled (reason 'install'), or    *)
(* again after an earlier lifetime in which the idle worker was stopped:   *)
(* the offscreen document and chrome.storage outlive the service worker.   *)
(* The worker is idle once the model is loaded, and also while the         *)
(* LlamaCpp offscreen document (build 1) loads the model, which sends      *)
(* nothing before init_callback; the wllama document (build 2) keeps the   *)
(* worker busy with OFFSCREEN_PROGRESS messages during the load.           *)
InitExtension ==
  /\ \E b \in Builds : build = b[1] /\ popupVer = b[2]
  /\ hasGetContexts \in BOOLEAN
  /\ creatingOffscreenPromise = 0
  /\ popupSendResponse = 0
  /\ req = [r \in ReqIds |-> NoReq]
  /\ replies = [r \in ReqIds |-> <<>>]
  /\ nreq = 0
  /\ creation = [c \in ReqIds |-> "unused"]
  /\ ncreate = 0
  /\ c2h = <<>>
  /\ h2c = <<>>
  /\ c2p = <<>>
  /\ wjobs = <<>>
  /\ nchunk = 0
  /\ currentModelResponse = <<>>
  /\ \/ /\ hostAlive = FALSE
        /\ isInitializing = FALSE
        /\ modelLoaded = FALSE
        /\ llamaCppInstance = FALSE
        /\ engine = [st |-> "idle", p |-> 0]
        /\ ninit = 0
        /\ storage = [modelStatus |-> "not_loaded", modelStatusMessage |-> Msg("installed", 0)]
        /\ lastCoordWrite = "not_loaded"
        /\ restored = "not_loaded"
        /\ scen = <<>>
     \/ /\ hostAlive = TRUE
        /\ isInitializing = FALSE
        /\ modelLoaded = TRUE
        /\ llamaCppInstance = TRUE
        /\ engine = [st |-> "idle", p |-> 0]
        /\ ninit = 1
        /\ storage = [modelStatus |-> "loaded", modelStatusMessage |-> Msg("ready", 0)]
        /\ lastCoordWrite = "loaded"
        /\ restored = "loaded"
        /\ scen = Off
     \/ /\ build = 1
        /\ hostAlive = TRUE
        /\ isInitializing = TRUE
        /\ modelLoaded = FALSE
        /\ llamaCppInstance = TRUE
        /\ engine = [st |-> "loading", p |-> 0]
        /\ ninit = 1
        /\ storage = [modelStatus |-> "loading", modelStatusMessage |-> Msg("init", 0)]
        /\ lastCoordWrite = "loading"
        /\ restored = "loading"
        /\ scen = Off
  /\ popupOpen = FALSE
  /\ sendDisabled = FALSE
  /\ loadDisabled = FALSE
  /\ ping = "none"
  /\ faults = 0
  /\ createWhileAlive = FALSE
  /\ createFailed = FALSE
  /\ hostDestroyed = FALSE
  /\ initSent = 0
  /\ scenOut = <<>>
  /\ stdoutBuffer = <<>>
  /\ written = <<>>
  /\ chunks = <<>>
  /\ wpc = "idle"
  /\ nwritten = 0

(* ------------------------------ utility.js ----------------------------- *)
LoaderCalls == 1..MaxCalls

(* Response bodies the server may answer the model URL with. *)
Bodies == {1, 2}

(* Bytes a cache filled by an earlier session holds. *)
OldBytes == 3

(* A loadBinaryResource call: position, the cache handle it holds, whether *)
(* cache.match found an entry, the bytes it read, the bytes it put into    *)
(* the cache (0 = none), the arguments its callback was invoked with, and  *)
(* the requests it sent.                                                   *)
NoCall == [pc |-> "idle", cache |-> FALSE, hit |-> FALSE, got |-> 0, stored |-> 0, cb |-> <<>>, xhr |-> 0]

(* No loadBinaryResource call has been made; the Cache API is there and    *)
(* holds nothing under the model URL.                                      *)
LoaderIdle ==
  /\ cachesApi = TRUE
  /\ cacheStore = 0
  /\ lbr = [k \in LoaderCalls |-> NoCall]

(* ------------------------- LlamaCpp (llama.js) ------------------------- *)
GenCalls == 1..MaxGen

(* A generate() call: its promise, generatedText, the value it resolved    *)
(* with, originalWrite and originalComplete, its timeout; and, as history, *)
(* the chunks the worker emitted for its run and whether the run completed. *)
NoGen == [pc |-> "idle", text |-> <<>>, result |-> <<>>, origW |-> 0, origC |-> 0, timer |-> "none",
          emitted |-> 0, completed |-> FALSE]

(* A LlamaCpp instance right after its constructor. *)
LlamaIdle ==
  /\ gen = [k \in GenCalls |-> NoGen]
  /\ write_result_callback = 0
  /\ on_complete_callback = 0
  /\ init_callback = "base"
  /\ worker = "alive"
  /\ wruns = <<>>
  /\ wrchunk = 0
  /\ initialized = FALSE
  /\ loadPromise = "none"
  /\ loadTimer = "none"

(* ------------------------------ server.js ------------------------------ *)
(* JavaScript numbers: an integer or NaN. *)
Num(v) == [nan |-> FALSE, v |-> v]

NaN == [nan |-> TRUE, v |-> 0]

(* The development server has answered no request yet. *)
ServerIdle ==
  /\ httpReq = [size |-> 0, hasRange |-> FALSE, range |-> << <<>>, <<>> >>]
  /\ httpRes = [status |-> 0, start |-> NaN, end |-> NaN, size |-> 0, length |-> NaN]

(* ----------------------- background.js: onInstalled -------------------- *)
(* chrome.storage.local of a profile the extension was never installed in. *)
Unset == [modelStatus |-> "unset", modelStatusMessage |-> Msg("unset", 0)]

(* The status and message updatePopupStatus is called with. *)
StatusWrites ==
  {[modelStatus |-> "loading", modelStatusMessage |-> Msg("init", 0)],
   [modelStatus |-> "loading", modelStatusMessage |-> Msg("inprogress", 0)],
   [modelStatus |-> "loading", modelStatusMessage |-> Msg("percent", 40)],
   [modelStatus |-> "loaded", modelStatusMessage |-> Msg("ready", 0)],
   [modelStatus |-> "error", modelStatusMessage |-> Msg("failed", 0)],
   [modelStatus |-> "error", modelStatusMessage |-> Msg("initfailed", 0)]}

(* An onInstalled handler that would reset the status for every reason. *)
onInstalled_always(st, mp, reason) ==
  [storage |-> [modelStatus |-> "not_loaded", modelStatusMessage |-> Msg("installed", 0)],
   modelPath |-> IF build = 1 THEN "current" ELSE mp]

(* The onInstalled listener applied to the stored status st and model path *)
(* mp: what chrome.storage.local holds afterwards.                         *)
onInstalled(st, mp, reason) ==
  IF reason = "install"
  THEN [storage |-> [modelStatus |-> "not_loaded", modelStatusMessage |-> Msg("installed", 0)],
        modelPath |-> IF build = 1 THEN "current" ELSE mp]
  ELSE IF reason = "update" /\ build = 1
  THEN [storage |-> st, modelPath |-> "current"]
  ELSE [storage |-> st, modelPath |-> mp]

(* The extension is installed and its onInstalled event has been handled. *)
Installed ==
  /\ modelPath = IF build = 1 THEN "current" ELSE "unset"
  /\ installLog = <<"install">>

Init == InitExtension /\ LoaderIdle /\ LlamaIdle /\ ServerIdle /\ Installed

Next ==
  \/ PopupOpen
  \/ PopupClose
  \/ ClickLoad
  \/ ClickSend
  \/ PopupRecvStatus
  \/ \E r \in ReqIds : PopupRecvReply(r)
  \/ \E r \in ReqIds : CoordRecv(r)
  \/ CoordRecvPing
  \/ \E r \in ReqIds : ProbeAnswer(r)
  \/ \E r \in ReqIds : Resume(r)
  \/ \E c \in ReqIds : BrowserCreate(c)
  \/ \E c \in ReqIds : CreateSettle(c)
  \/ CoordRecvHost
  \/ CoordinatorRestart
  \/ HostDestroy
  \/ HostRecv
  \/ EngineProgress
  \/ EngineLoaded
  \/ EngineFail
  \/ JobChunk
  \/ JobComplete
  \/ JobError

Spec == Init /\ [][Next]_vars

(* The event loop runs every queued task and the browser answers every     *)
(* call: a handler, continuation or browser step that stays enabled is     *)
(* eventually taken.  Clicks, closings and restarts are under no such      *)
(* obligation.                                                             *)
SystemStep ==
  \/ \E r \in ReqIds : CoordRecv(r)
  \/ CoordRecvPing
  \/ \E r \in ReqIds : ProbeAnswer(r)
  \/ \E r \in ReqIds : Resume(r)
  \/ \E c \in ReqIds : BrowserCreate(c)
  \/ \E c \in ReqIds : CreateSettle(c)
  \/ CoordRecvHost
  \/ HostRecv

SpecFair == Spec /\ WF_vars(SystemStep)

(* --------------------------- main-worker.js ---------------------------- *)
(* decoder.decode(new Uint8Array(bytes)) for single-byte units: an ASCII   *)
(* byte decodes to its code point, any other lone byte to U+FFFD.          *)
decode(bytes) ==
  [i \in 1..Len(bytes) |-> IF bytes[i] % 256 < 128 THEN bytes[i] % 256 ELSE 65533]

RECURSIVE Concat(_)
Concat(ss) == IF ss = <<>> THEN <<>> ELSE Head(ss) \o Concat(Tail(ss))

(* onmessage RUN_MAIN: runInference starts module.callMain. *)
WorkerRun ==
  /\ wpc \in {"idle", "completed"}
  /\ wpc' = "running"
  /\ written' = <<>>
  /\ chunks' = <<>>
  /\ UNCHANGED <<stdoutBuffer, nwritten>>
  /\ UNCHANGED <<envVars, coordVars, browserVars, hostVars, popupVars, histVars, libVars>>
  /\ UNCHANGED ping

(* A stdout that would post the text and keep the buffer. *)
stdout_noClear(c) ==
  /\ wpc = "running"
  /\ nwritten < MaxUnits
  /\ nwritten' = nwritten + 1
  /\ written' = Append(written, c)
  /\ stdoutBuffer' = Append(stdoutBuffer, c)
  /\ chunks' = IF c \in FLUSH_CHARS THEN Append(chunks, decode(Append(stdoutBuffer, c))) ELSE chunks
  /\ UNCHANGED wpc
  /\ UNCHANGED <<envVars, coordVars, browserVars, hostVars, popupVars, histVars, libVars>>
  /\ UNCHANGED ping

(* The TTY put_char hook: stdout(c). *)
stdout(c) ==
  /\ wpc = "running"
  /\ nwritten < MaxUnits
  /\ nwritten' = nwritten + 1
  /\ written' = Append(written, c)
  /\ IF c \notin FLUSH_CHARS
     THEN /\ stdoutBuffer' = Append(stdoutBuffer, c)
          /\ UNCHANGED chunks
     ELSE /\ stdoutBuffer' = <<>>
          /\ chunks' = Append(chunks, decode(Append(stdoutBuffer, c)))
  /\ UNCHANGED wpc
  /\ UNCHANGED <<envVars, coordVars, browserVars, hostVars, popupVars, histVars, libVars>>
  /\ UNCHANGED ping

(* callMain returned: postMessage RUN_COMPLETED. *)
RunCompleted ==
  /\ wpc = "running"
  /\ wpc' = "completed"
  /\ UNCHANGED <<stdoutBuffer, written, chunks, nwritten>>
  /\ UNCHANGED <<envVars, coordVars, browserVars, hostVars, popupVars, histVars, libVars>>
  /\ UNCHANGED ping

InitWorker == Init /\ build = 1 /\ popupVer = 1 /\ hasGetContexts /\ ~hostAlive

NextWorker ==
  \/ WorkerRun
  \/ \E c \in Units : stdout(c)
  \/ RunCompleted

SpecWorker == InitWorker /\ [][NextWorker]_vars

(* ------------------- utility.js: loadBinaryResource -------------------- *)
(* Each await of loadBinaryResource and the XHR's onload are points where  *)
(* other calls may run.  The download can fail (onload never fires) and    *)
(* cache.put can reject (quota); neither is handled by the code.           *)
callback(q, bytes) == [q EXCEPT !.cb = Append(@, bytes)]

(* new XMLHttpRequest(); req.open('GET', url, true); req.send(null). *)
SendXhr(q) == [q EXCEPT !.pc = "xhr", !.xhr = @ + 1]

(* loadBinaryResource(url, callback) up to its first await. *)
LbrCall(k) ==
  /\ lbr[k].pc = "idle"
  /\ lbr' = [lbr EXCEPT ![k] = IF cachesApi THEN [lbr[k] EXCEPT !.pc = "open"] ELSE SendXhr(lbr[k])]
  /\ UNCHANGED <<cachesApi, cacheStore>>
  /\ UNCHANGED <<appVars, llamaVars, serverVars, installVars>>

(* await window.caches.open(cacheName) resolved. *)
LbrOpened(k) ==
  /\ lbr[k].pc = "open"
  /\ lbr' = [lbr EXCEPT ![k] = [lbr[k] EXCEPT !.pc = "match", !.cache = TRUE]]
  /\ UNCHANGED <<cachesApi, cacheStore>>
  /\ UNCHANGED <<appVars, llamaVars, serverVars, installVars>>

(* await cache.match(url) resolved. *)
LbrMatched(k) ==
  /\ lbr[k].pc = "match"
  /\ lbr' = [lbr EXCEPT ![k] = IF cacheStore # 0
                               THEN [lbr[k] EXCEPT !.pc = "read", !.hit = TRUE, !.got = cacheStore]
                               ELSE SendXhr(lbr[k])]
  /\ UNCHANGED <<cachesApi, cacheStore>>
  /\ UNCHANGED <<appVars, llamaVars, serverVars, installVars>>

(* await cachedResponse.arrayBuffer() resolved: callback(byteArray); return. *)
LbrRead(k) ==
  /\ lbr[k].pc = "read"
  /\ lbr' = [lbr EXCEPT ![k] = [callback(lbr[k], lbr[k].got) EXCEPT !.pc = "done"]]
  /\ UNCHANGED <<cachesApi, cacheStore>>
  /\ UNCHANGED <<appVars, llamaVars, serverVars, installVars>>

(* An onload that would invoke the callback before the cache is written. *)
LbrOnload_callbackFirst(k, body) ==
  /\ lbr[k].pc = "xhr"
  /\ lbr' = [lbr EXCEPT ![k] = IF lbr[k].cache
                               THEN [callback(lbr[k], body) EXCEPT !.pc = "put", !.got = body]
                               ELSE [callback(lbr[k], body) EXCEPT !.pc = "done", !.got = body]]
  /\ UNCHANGED <<cachesApi, cacheStore>>
  /\ UNCHANGED <<appVars, llamaVars, serverVars, installVars>>

(* req.onload up to its await: with a cache handle it starts cache.put,    *)
(* without one it invokes the callback at once.                            *)
LbrOnload(k, body) ==
  /\ lbr[k].pc = "xhr"
  /\ lbr' = [lbr EXCEPT ![k] = IF lbr[k].cache
                               THEN [lbr[k] EXCEPT !.pc = "put", !.got = body]
                               ELSE [callback(lbr[k], body) EXCEPT !.pc = "done", !.got = body]]
  /\ UNCHANGED <<cachesApi, cacheStore>>
  /\ UNCHANGED <<appVars, llamaVars, serverVars, installVars>>

(* The request fails: no load event, and the code sets no onerror. *)
LbrXhrError(k) ==
  /\ lbr[k].pc = "xhr"
  /\ lbr' = [lbr EXCEPT ![k] = [lbr[k] EXCEPT !.pc = "failed"]]
  /\ UNCHANGED <<cachesApi, cacheStore>>
  /\ UNCHANGED <<appVars, llamaVars, serverVars, installVars>>

(* cache.put(url, new Response(arrayBuffer)) writes the entry. *)
LbrPut(k) ==
  /\ lbr[k].pc = "put"
  /\ cacheStore' = lbr[k].got
  /\ lbr' = [lbr EXCEPT ![k] = [lbr[k] EXCEPT !.pc = "stored", !.stored = lbr[k].got]]
  /\ UNCHANGED cachesApi
  /\ UNCHANGED <<appVars, llamaVars, serverVars, installVars>>

(* cache.put rejects: onload's promise rejects, the callback is not reached. *)
LbrPutRejected(k) ==
  /\ lbr[k].pc = "put"
  /\ lbr' = [lbr EXCEPT ![k] = [lbr[k] EXCEPT !.pc = "failed"]]
  /\ UNCHANGED <<cachesApi, cacheStore>>
  /\ UNCHANGED <<appVars, llamaVars, serverVars, installVars>>

(* await cache.put resolved: callback(byteArray). *)
LbrAfterPut(k) ==
  /\ lbr[k].pc = "stored"
  /\ lbr' = [lbr EXCEPT ![k] = [callback(lbr[k], lbr[k].got) EXCEPT !.pc = "done"]]
  /\ UNCHANGED <<cachesApi, cacheStore>>
  /\ UNCHANGED <<appVars, llamaVars, serverVars, installVars>>

(* The worker's scope has the Cache API or not; the cache is empty or      *)
(* holds the bytes of an earlier download.                                 *)
InitLoader ==
  /\ InitExtension /\ build = 1 /\ popupVer = 1 /\ hasGetContexts /\ ~hostAlive
  /\ cachesApi \in BOOLEAN
  /\ cacheStore \in {0, OldBytes}
  /\ lbr = [k \in LoaderCalls |-> NoCall]
  /\ LlamaIdle
  /\ ServerIdle
  /\ Installed

NextLoader ==
  \/ \E k \in LoaderCalls : LbrCall(k)
  \/ \E k \in LoaderCalls : LbrOpened(k)
  \/ \E k \in LoaderCalls : LbrMatched(k)
  \/ \E k \in LoaderCalls : LbrRead(k)
  \/ \E k \in LoaderCalls : \E body \in Bodies : LbrOnload(k, body)
  \/ \E k \in LoaderCalls : LbrXhrError(k)
  \/ \E k \in LoaderCalls : LbrPut(k)
  \/ \E k \in LoaderCalls : LbrPutRejected(k)
  \/ \E k \in LoaderCalls : LbrAfterPut(k)

SpecLoader == InitLoader /\ [][NextLoader]_vars

(* ---------------------- LlamaCpp: load and generate -------------------- *)
(* The fields the callbacks of a LlamaCpp instance read and write. *)
LS == [gen |-> gen, wcb |-> write_result_callback, ccb |-> on_complete_callback]

(* Invoking write callback w with a chunk: the closure of call w appends   *)
(* to its generatedText and calls its originalWrite.                       *)
RECURSIVE CallWrite(_, _, _)
CallWrite(g, w, c) ==
  IF w = 0 THEN g
  ELSE CallWrite([g EXCEPT ![w].text = Append(g[w].text, c)], g[w].origW, c)

(* Invoking completion callback k: the closure of call k restores          *)
(* originalWrite and originalComplete, calls originalComplete and resolves *)
(* its promise with its generatedText.                                     *)
RECURSIVE CallComplete(_, _)
CallComplete(s, k) ==
  IF k = 0 THEN s
  ELSE LET s1 == [s EXCEPT !.wcb = s.gen[k].origW, !.ccb = s.gen[k].origC]
           s2 == CallComplete(s1, s.gen[k].origC)
       IN IF s2.gen[k].pc = "pending"
          THEN [s2 EXCEPT !.gen[k].pc = "resolved", !.gen[k].result = s2.gen[k].text]
          ELSE s2

(* LlamaCpp.generate(params), call k.  Invalid params reject at once; with *)
(* this.worker null postMessage throws inside the executor, after the      *)
(* callbacks were replaced and before the timeout is set.                  *)
generate(k, valid) ==
  /\ gen[k].pc = "idle"
  /\ \A j \in GenCalls : j < k => gen[j].pc # "idle"
  /\ IF ~valid
     THEN /\ gen' = [gen EXCEPT ![k].pc = "rejected"]
          /\ UNCHANGED <<write_result_callback, on_complete_callback, wruns>>
     ELSE /\ gen' = [gen EXCEPT ![k] = [gen[k] EXCEPT !.pc = IF worker = "alive" THEN "pending" ELSE "rejected",
                                                     !.origW = write_result_callback,
                                                     !.origC = on_complete_callback,
                                                     !.timer = IF worker = "alive" THEN "armed" ELSE "none"]]
          /\ write_result_callback' = k
          /\ on_complete_callback' = k
          /\ wruns' = IF worker = "alive" THEN Append(wruns, k) ELSE wruns
  /\ UNCHANGED <<init_callback, worker, wrchunk, initialized, loadPromise, loadTimer>>
  /\ UNCHANGED <<appVars, loaderVars, serverVars, installVars>>

(* handleWorkerMessage, action.WRITE_RESULT, for a chunk of the running run. *)
LlamaWriteResult ==
  /\ worker = "alive"
  /\ wruns # <<>>
  /\ wrchunk < MaxChunks
  /\ wrchunk' = wrchunk + 1
  /\ gen' = [CallWrite(gen, write_result_callback, Head(wruns)) EXCEPT ![Head(wruns)].emitted = gen[Head(wruns)].emitted + 1]
  /\ UNCHANGED <<write_result_callback, on_complete_callback, init_callback, worker, wruns, initialized, loadPromise, loadTimer>>
  /\ UNCHANGED <<appVars, loaderVars, serverVars, installVars>>

(* handleWorkerMessage, action.RUN_COMPLETED, for the running run. *)
LlamaRunCompleted ==
  /\ worker = "alive"
  /\ wruns # <<>>
  /\ LET s == CallComplete(LS, on_complete_callback)
     IN /\ gen' = [s.gen EXCEPT ![Head(wruns)].completed = TRUE]
        /\ write_result_callback' = s.wcb
        /\ on_complete_callback' = s.ccb
  /\ wruns' = Tail(wruns)
  /\ wrchunk' = 0
  /\ UNCHANGED <<init_callback, worker, initialized, loadPromise, loadTimer>>
  /\ UNCHANGED <<appVars, loaderVars, serverVars, installVars>>

(* LlamaCpp.terminate(). *)
terminate == IF worker = "alive" THEN "null" ELSE worker

(* The setTimeout of generate call k fires: this.terminate(); reject(...). *)
(* A terminated worker runs nothing and posts nothing any more.            *)
GenerateTimeout(k) ==
  /\ gen[k].timer = "armed"
  /\ gen' = [gen EXCEPT ![k] = [gen[k] EXCEPT !.timer = "fired",
                                          !.pc = IF gen[k].pc = "pending" THEN "rejected" ELSE gen[k].pc]]
  /\ worker' = terminate
  /\ wruns' = <<>>
  /\ wrchunk' = 0
  /\ UNCHANGED <<write_result_callback, on_complete_callback, init_callback, initialized, loadPromise, loadTimer>>
  /\ UNCHANGED <<appVars, loaderVars, serverVars, installVars>>

(* LlamaCpp.load(): wraps init_callback, posts LOAD, sets the timeout. *)
load ==
  /\ loadPromise = "none"
  /\ worker = "alive"
  /\ loadPromise' = "pending"
  /\ init_callback' = "wrapped"
  /\ loadTimer' = "armed"
  /\ UNCHANGED <<gen, write_result_callback, on_complete_callback, worker, wruns, wrchunk, initialized>>
  /\ UNCHANGED <<appVars, loaderVars, serverVars, installVars>>

(* handleWorkerMessage, action.INITIALIZED: init_callback(); load's        *)
(* wrapper calls the original, resets init_callback and resolves.          *)
LlamaInitialized ==
  /\ worker = "alive"
  /\ loadPromise # "none"
  /\ ~initialized
  /\ initialized' = TRUE
  /\ init_callback' = IF init_callback = "wrapped" THEN "noop" ELSE init_callback
  /\ loadPromise' = IF init_callback = "wrapped" /\ loadPromise = "pending" THEN "resolved" ELSE loadPromise
  /\ UNCHANGED <<gen, write_result_callback, on_complete_callback, worker, wruns, wrchunk, loadTimer>>
  /\ UNCHANGED <<appVars, loaderVars, serverVars, installVars>>

(* The setTimeout of load() fires: reject(...), without effect on a        *)
(* settled promise.                                                        *)
LoadTimeout ==
  /\ loadTimer = "armed"
  /\ loadTimer' = "fired"
  /\ loadPromise' = IF loadPromise = "pending" THEN "rejected" ELSE loadPromise
  /\ UNCHANGED <<gen, write_result_callback, on_complete_callback, init_callback, worker, wruns, wrchunk, initialized>>
  /\ UNCHANGED <<appVars, loaderVars, serverVars, installVars>>

InitLlama ==
  /\ InitExtension /\ build = 1 /\ popupVer = 1 /\ hasGetContexts /\ ~hostAlive
  /\ LoaderIdle
  /\ LlamaIdle
  /\ ServerIdle
  /\ Installed

NextLlama ==
  \/ \E k \in GenCalls : \E valid \in BOOLEAN : generate(k, valid)
  \/ LlamaWriteResult
  \/ LlamaRunCompleted
  \/ \E k \in GenCalls : GenerateTimeout(k)
  \/ load
  \/ LlamaInitialized
  \/ LoadTimeout

SpecLlama == InitLlama /\ [][NextLlama]_vars

(* ---------------------- server.js: request handler --------------------- *)
(* A Range header "bytes=<start>-<end>": the two parts are strings of      *)
(* decimal digits, either of which may be empty.                           *)
DigitStrings == UNION {[1..n -> 0..9] : n \in 0..MaxDigits}

(* parseInt(s, 10) of a string of decimal digits; NaN for the empty string. *)
RECURSIVE parseInt(_)
parseInt(ds) ==
  IF Len(ds) = 0 THEN NaN
  ELSE IF Len(ds) = 1 THEN Num(ds[1])
  ELSE Num(10 * parseInt(SubSeq(ds, 1, Len(ds) - 1)).v + ds[Len(ds)])

(* end - start + 1 in JavaScript numbers. *)
ChunkSize(start, end) == IF start.nan \/ end.nan THEN NaN ELSE Num(end.v - start.v + 1)

(* The headers the fs.stat callback writes for a file of fileSize bytes    *)
(* (0 = no such file) and a request with or without a Range header.        *)
Respond(fileSize, hasRange, range) ==
  IF fileSize = 0
  THEN [status |-> 404, start |-> NaN, end |-> NaN, size |-> 0, length |-> NaN]
  ELSE IF hasRange
  THEN LET start == parseInt(range[1])
           end == IF Len(range[2]) # 0 THEN parseInt(range[2]) ELSE Num(fileSize - 1)
       IN [status |-> 206, start |-> start, end |-> end, size |-> fileSize,
           length |-> ChunkSize(start, end)]
  ELSE [status |-> 200, start |-> NaN, end |-> NaN, size |-> fileSize, length |-> Num(fileSize)]

(* http.createServer((req, res) => ...) for one request. *)
requestHandler(fileSize, hasRange, range) ==
  /\ httpReq' = [size |-> fileSize, hasRange |-> hasRange, range |-> range]
  /\ httpRes' = Respond(fileSize, hasRange, range)
  /\ UNCHANGED <<appVars, loaderVars, llamaVars, installVars>>

InitServer ==
  /\ InitExtension /\ build = 1 /\ popupVer = 1 /\ hasGetContexts /\ ~hostAlive
  /\ LoaderIdle
  /\ LlamaIdle
  /\ ServerIdle
  /\ Installed

NextServer ==
  \E fileSize \in 0..MaxSize :
    \/ requestHandler(fileSize, FALSE, << <<>>, <<>> >>)
    \/ \E range \in DigitStrings \X DigitStrings : requestHandler(fileSize, TRUE, range)

SpecServer == InitServer /\ [][NextServer]_vars

(* ------------------ background.js: install and update ------------------ *)
(* chrome.runtime.onInstalled fires with reason 'install' when the         *)
(* extension is installed into a profile that holds nothing of it, and     *)
(* with 'update' or 'chrome_update' afterwards.  Between these events the  *)
(* extension runs and updatePopupStatus overwrites the stored status.      *)
OnInstalled(reason) ==
  /\ Len(installLog) < MaxEvents
  /\ reason = "install" <=> storage = Unset
  /\ storage' = onInstalled(storage, modelPath, reason).storage
  /\ modelPath' = onInstalled(storage, modelPath, reason).modelPath
  /\ lastCoordWrite' = IF reason = "install" THEN "not_loaded" ELSE lastCoordWrite
  /\ installLog' = Append(installLog, reason)
  /\ UNCHANGED <<envVars, creatingOffscreenPromise, popupSendResponse, req, replies, nreq>>
  /\ UNCHANGED <<browserVars, hostVars, popupVars, pingVars, workerVars>>
  /\ UNCHANGED <<faults, createWhileAlive, createFailed, hostDestroyed, initSent, scen, scenOut>>
  /\ UNCHANGED <<loaderVars, llamaVars, serverVars>>

(* updatePopupStatus: chrome.storage.local.set({modelStatus, modelStatusMessage}). *)
StatusWritten(w) ==
  /\ storage # Unset
  /\ storage' = w
  /\ lastCoordWrite' = w.modelStatus
  /\ UNCHANGED <<envVars, creatingOffscreenPromise, popupSendResponse, req, replies, nreq>>
  /\ UNCHANGED <<browserVars, hostVars, popupVars, pingVars, workerVars>>
  /\ UNCHANGED <<faults, createWhileAlive, createFailed, hostDestroyed, initSent, scen, scenOut>>
  /\ UNCHANGED <<loaderVars, llamaVars, serverVars, installVars>>

(* The extension is removed: the browser clears its storage. *)
Uninstall ==
  /\ Len(installLog) < MaxEvents
  /\ storage # Unset
  /\ storage' = Unset
  /\ modelPath' = "unset"
  /\ installLog' = Append(installLog, "removed")
  /\ UNCHANGED <<envVars, creatingOffscreenPromise, popupSendResponse, req, replies, nreq>>
  /\ UNCHANGED <<browserVars, hostVars, popupVars, pingVars, workerVars>>
  /\ UNCHANGED <<histVars, loaderVars, llamaVars, serverVars>>

InitInstall ==
  /\ InitExtension /\ popupVer = 2 /\ hasGetContexts /\ ~hostAlive
  /\ LoaderIdle
  /\ LlamaIdle
  /\ ServerIdle
  /\ Installed

NextInstall ==
  \/ \E reason \in {"install", "update", "chrome_update"} : OnInstalled(reason)
  \/ \E w \in StatusWrites : StatusWritten(w)
  \/ Uninstall

SpecInstall == InitInstall /\ [][NextInstall]_vars

(* ------------------------------ properties ----------------------------- *)
(* C1: concurrent setupOffscreenDocument() calls that all started while    *)
(* no offscreen document existed invoke createDocument exactly once.       *)
(* With getContexts available, no restart, no outside close and no failed  *)
(* creation, a second createDocument call can only come from such calls.   *)
C1_SingleCreation ==
  (hasGetContexts /\ faults = 0 /\ ~createFailed) => ncreate <= 1

(* C2: createDocument is never invoked while an offscreen document is      *)
(* alive, so at most one exists, whatever the probe answers.               *)
C2_NoCreateWhileAlive == ~createWhileAlive

(* C3: a SEND_PROMPT that finds an offscreen document while                *)
(* popupSendResponse is already set is answered with a busy error at once  *)
(* and leaves the stored handle as it was.                                 *)
C3_BusyRejected ==
  [][\A r \in ReqIds :
       (/\ req[r].kind = "SEND" /\ req[r].pc = "probed" /\ req[r].probe
        /\ req'[r].pc = "done" /\ popupSendResponse # 0)
       => (/\ popupSendResponse' = popupSendResponse
           /\ replies'[r] = <<Payload("busy", 0, "")>>)]_vars

(* C4: a result or error of a job is passed only to the sendResponse of    *)
(* the SEND_PROMPT that submitted that job.                                *)
C4_ResultToSubmitter ==
  \A r \in ReqIds : \A i \in 1..Len(replies[r]) :
    replies[r][i].t \in {"result", "runerr", "notloaded"} => replies[r][i].job = r

(* C5: every SEND_PROMPT and LOAD_MODEL is eventually answered through     *)
(* its own sendResponse with a typed success or error, when the popup      *)
(* stays, nothing restarts and the engine ends every call: once nothing    *)
(* is left to run, each request has such an answer.                        *)
C5_EveryRequestAnswered ==
  LET Quiescent ==
        /\ \A r \in ReqIds : req[r].pc \in {"idle", "done"}
        /\ \A c \in ReqIds : creation[c] \in {"unused", "settled"}
        /\ c2h = <<>> /\ h2c = <<>> /\ wjobs = <<>>
        /\ engine.st = "idle"
      TypedAnswer(r) ==
        /\ replies[r] # <<>>
        /\ replies[r][1].t \in (IF req[r].kind = "LOAD"
                                THEN {"started", "fail"}
                                ELSE {"result", "runerr", "notloaded", "notready"})
  IN (Quiescent /\ faults = 0) => \A r \in 1..nreq : TypedAnswer(r)

(* C6: a SEND_PROMPT handled while no offscreen document exists is         *)
(* answered with the not-ready error; no command is sent, no handle is     *)
(* stored and chrome.storage is left alone.  The case: the handler of r    *)
(* returns in this step and no offscreen document existed since it began.  *)
C6_NotReady ==
  [][\A r \in ReqIds :
       (/\ req[r].kind = "SEND"
        /\ req'[r].pc = "done"
        /\ \/ req[r].pc = "sent" /\ ~hostAlive
           \/ req[r].pc = "probed" /\ ~req[r].saw)
       => (/\ replies'[r] = <<Payload("notready", 0, "")>>
           /\ c2h' = c2h
           /\ popupSendResponse' = popupSendResponse
           /\ storage' = storage)]_vars

C6_Witness ==
  \E r \in ReqIds :
    /\ req[r].kind = "SEND" /\ req[r].pc = "done"
    /\ replies[r] = <<Payload("notready", 0, "")>>
    /\ ~hostAlive /\ ncreate = 0 /\ faults = 0
    /\ popupSendResponse = 0 /\ c2h = <<>>
    /\ storage.modelStatus = "not_loaded"

(* C7: when RUN_COMPLETED is posted, the texts posted with WRITE_RESULT    *)
(* during the job, put together, are the units the engine wrote.           *)
C7_ChunksCoverOutput ==
  wpc = "completed" => Concat(chunks) = decode(written)

(* C8: a popup that opens reads from chrome.storage the status that        *)
(* background.js wrote last.                                               *)
C8_ReadsLastCoordWrite ==
  [][(~popupOpen /\ popupOpen') => restored' = lastCoordWrite]_vars

(* C9: of two LOAD_MODEL requests, the second handled while the status is  *)
(* 'loading', only one makes background.js dispatch OFFSCREEN_INIT_MODEL.  *)
C9_OneInitDispatched ==
  (/\ nreq = 2 /\ faults = 0
   /\ \A r \in 1..2 : req[r].kind = "LOAD" /\ req[r].pc = "done"
   /\ req[2].wl)
  => initSent <= 1

(* C9, amended: background.js dispatches one OFFSCREEN_INIT_MODEL for      *)
(* every LOAD_MODEL whose setupOffscreenDocument() returned, two for two;  *)
(* the offscreen document answers a command that arrives while it is       *)
(* initializing with OFFSCREEN_ALREADY_INITIALIZING and starts nothing.    *)
C9_OneInitPerLoad ==
  /\ [](initSent = Cardinality({r \in ReqIds :
                                  \E i \in 1..Len(replies[r]) : replies[r][i].t = "started"}))
  /\ [][(/\ hostAlive /\ c2h # <<>> /\ Head(c2h).t = "INIT" /\ isInitializing
         /\ c2h' = Tail(c2h) /\ hostAlive')
        => (/\ ninit' = ninit /\ engine' = engine
            /\ h2c' = Append(h2c, Ev("ALREADY", 0, 0, <<>>)))]_vars

C9_Witness ==
  /\ nreq = 2 /\ faults = 0
  /\ \A r \in 1..2 : req[r].kind = "LOAD" /\ req[r].pc = "done"
  /\ req[2].wl
  /\ \A r \in 1..2 : replies[r] = <<Payload("started", 0, "")>>
  /\ initSent = 2 /\ ninit = 1
  /\ storage.modelStatusMessage = Msg("inprogress", 0)

(* C10: from the state without offscreen document, LOAD_MODEL followed by  *)
(* two OFFSCREEN_PROGRESS and OFFSCREEN_MODEL_LOADED ends with 'loaded'    *)
(* persisted, and between the first 'loading' notification and the final   *)
(* 'loaded' exactly the two progress notifications went out, in order.     *)
C10_ProgressRelayed ==
  [][(scen' # scen /\ scen' # Off /\ Len(scen') = Len(ScenPattern))
     => LET Bcast(status, msg) == [ch |-> "broadcast", status |-> status, msg |-> msg]
        IN /\ storage'.modelStatus = "loaded"
           /\ scenOut' = <<Bcast("loading", Msg("init", 0)),
                           Bcast("loading", Msg("percent", scen'[2].n)),
                           Bcast("loading", Msg("percent", scen'[3].n)),
                           Bcast("loaded", Msg("ready", 0))>>]_vars

C10_Witness ==
  /\ scen = <<[e |-> "LOAD", n |-> 0], [e |-> "PROGRESS", n |-> 40],
              [e |-> "PROGRESS", n |-> 90], [e |-> "LOADED", n |-> 0]>>
  /\ Len(scenOut) = 4
  /\ scenOut[2].msg = Msg("percent", 40) /\ scenOut[3].msg = Msg("percent", 90)
  /\ storage.modelStatus = "loaded"

(* C11: LOAD_MODEL first sets the status to 'loading' (no reply, no        *)
(* command yet); the 'started' reply comes in a later step, after          *)
(* setupOffscreenDocument() returned, together with one                    *)
(* OFFSCREEN_INIT_MODEL per reply, and without any event of the offscreen  *)
(* document having been waited for.                                        *)
C11_LoadOrder ==
  [][LET NewStarted == {r \in ReqIds : replies[r] = <<>>
                                       /\ replies'[r] = <<Payload("started", 0, "")>>}
         k == Cardinality(NewStarted)
     IN /\ \A r \in ReqIds :
             (req[r].kind = "LOAD" /\ req[r].pc = "sent" /\ req'[r].pc # "sent")
             => (/\ storage'.modelStatus = "loading"
                 /\ replies'[r] = <<>>
                 /\ initSent' = initSent /\ c2h' = c2h)
        /\ \A r \in NewStarted :
             /\ req[r].kind = "LOAD"
             /\ req[r].pc \in {"probed", "creating", "awaitTicket"}
             /\ faults = 0 => hostAlive
        /\ initSent' - initSent = k
        /\ (k > 0 /\ hostAlive) => c2h' = c2h \o [i \in 1..k |-> Cmd("INIT", 0)]]_vars

C11_Witness ==
  \E r \in ReqIds :
    /\ req[r].kind = "LOAD" /\ replies[r] = <<Payload("started", 0, "")>>
    /\ storage.modelStatus = "loading" /\ lastCoordWrite = "loading"
    /\ hostAlive /\ ~modelLoaded /\ engine.st = "loading" /\ h2c = <<>>

(* C12: when the command cannot be forwarded because the offscreen         *)
(* document is gone, the handler answers its caller with an error at once  *)
(* and popupSendResponse does not keep the caller's handle.                *)
C12_ForwardFailureReported ==
  [][\A r \in ReqIds :
       (/\ req[r].pc = "probed" /\ req[r].probe /\ req'[r].pc = "done" /\ ~hostAlive)
       => (/\ replies'[r] # <<>>
           /\ replies'[r][Len(replies'[r])].t \in {"fail", "notready"}
           /\ popupSendResponse' # r)]_vars

(* C13: a SEND_PROMPT handled while the status is not 'loaded' is          *)
(* answered with the not-ready error, leaves the status alone and sends    *)
(* no OFFSCREEN_RUN_PROMPT, whether or not an offscreen document exists.   *)
C13_NotReadyRejected ==
  [][\A r \in ReqIds :
       (/\ req[r].kind = "SEND" /\ req[r].pc \in {"sent", "probed"} /\ req'[r].pc = "done"
        /\ storage.modelStatus # "loaded" /\ lastCoordWrite # "loaded")
       => (/\ replies'[r] = <<Payload("notready", 0, "")>>
           /\ c2h' = c2h
           /\ storage' = storage)]_vars

(* C14: a LOAD_MODEL received while the status is 'loaded' leaves the      *)
(* stored status 'loaded' and announces no 'loading'.                      *)
C14_ReloadStaysReady ==
  [][\A r \in ReqIds :
       (/\ req[r].kind = "LOAD" /\ req[r].pc = "sent" /\ req'[r].pc # "sent"
        /\ storage.modelStatus = "loaded" /\ lastCoordWrite = "loaded")
       => (/\ storage'.modelStatus = "loaded"
           /\ \A i \in (Len(c2p) + 1)..Len(c2p') : c2p'[i].status # "loading")]_vars

(* C15: when createDocument fails, the creating LOAD_MODEL handler and     *)
(* every handler awaiting the same promise reply with an error, the status *)
(* becomes 'error', no OFFSCREEN_INIT_MODEL is sent and the ticket is      *)
(* gone; a LOAD_MODEL that later finds no document and no ticket calls     *)
(* createDocument again.                                                   *)
C15_CreationFailure ==
  [][/\ \A c \in ReqIds :
          (creation[c] = "err" /\ creation'[c] = "settled")
          => LET W == {r \in ReqIds : req[r].pc \in {"creating", "awaitTicket"} /\ req[r].tk = c}
             IN /\ \A r \in W : replies'[r] = <<Payload("fail", 0, "")>> /\ req'[r].pc = "done"
                /\ W # {} => storage'.modelStatus = "error"
                /\ initSent' = initSent /\ c2h' = c2h
                /\ creatingOffscreenPromise' # c
     /\ \A r \in ReqIds :
          (/\ createFailed /\ creatingOffscreenPromise = 0 /\ req[r].kind = "LOAD"
           /\ \/ req[r].pc = "probed" /\ ~req[r].probe /\ req'[r].pc \notin {"probed", "killed"}
              \/ req[r].pc = "sent" /\ ~hasGetContexts /\ req'[r].pc # "sent")
          => (/\ ncreate' = ncreate + 1
              /\ creation'[ncreate'] = "pending"
              /\ creatingOffscreenPromise' = ncreate')]_vars

C15_Witness ==
  /\ ~hostAlive /\ createFailed /\ faults = 0
  /\ req[1].kind = "LOAD" /\ replies[1] = <<Payload("fail", 0, "")>>
  /\ creation[1] = "settled" /\ initSent = 0
  /\ req[2].kind = "LOAD" /\ req[2].pc = "creating"
  /\ ncreate = 2 /\ creation[2] = "pending" /\ creatingOffscreenPromise = 2

(* C16: handling OFFSCREEN_MODEL_RESPONSE, OFFSCREEN_MODEL_RUN_ERROR or    *)
(* OFFSCREEN_MODEL_NOT_LOADED_FOR_PROMPT leaves chrome.storage untouched   *)
(* and broadcasts nothing; only the stored sendResponse, if any, is        *)
(* called, with the result or error, and is then forgotten.                *)
C16_JobEventsKeepStatus ==
  [][(/\ h2c # <<>> /\ h2c' = Tail(h2c)
      /\ Head(h2c).t \in {"RESPONSE", "RUN_ERROR", "NOT_LOADED"})
     => (/\ storage' = storage /\ lastCoordWrite' = lastCoordWrite
         /\ c2p' = c2p
         /\ popupSendResponse' = 0
         /\ \A r \in ReqIds :
              \/ replies'[r] = replies[r]
              \/ /\ r = popupSendResponse
                 /\ \E t \in {"result", "runerr", "notloaded"} :
                      replies'[r] = Append(replies[r], Payload(t, Head(h2c).job, "")))]_vars

C16_Witness ==
  \E r \in ReqIds :
    /\ req[r].kind = "SEND" /\ replies[r] = <<Payload("runerr", r, "")>>
    /\ storage.modelStatus = "loaded" /\ lastCoordWrite = "loaded"
    /\ popupSendResponse = 0 /\ h2c = <<>> /\ hostAlive /\ modelLoaded

(* C17: no status is ever passed to a sendResponse: a stored reply handle  *)
(* only ever receives the result or error of a job.                        *)
C17_NoStatusThroughHandle ==
  \A r \in ReqIds : \A i \in 1..Len(replies[r]) : replies[r][i].t # "status"

(* C18: no step of the popup (opening or closing, a click, a received      *)
(* UPDATE_MODEL_STATUS, a reply callback) changes chrome.storage.          *)
C18_PopupNeverWrites ==
  [][(\/ popupOpen' # popupOpen
      \/ nreq' # nreq
      \/ popupOpen /\ c2p # <<>> /\ c2p' = Tail(c2p)
      \/ \E r \in ReqIds : req[r].cb = "wait" /\ req'[r].cb = "done")
     => storage' = storage]_vars

(* C19: the stored status is, in every state, the status of the latest     *)
(* updatePopupStatus call (or the one written at installation).            *)
C19_StoredIsLastAnnounced == storage.modelStatus = lastCoordWrite

(* C20: stdoutBuffer is empty whenever runInference starts a job.          *)
C20_BufferEmptyAtJobStart ==
  [][(wpc # "running" /\ wpc' = "running") => stdoutBuffer = <<>>]_vars

(* C21: handling PING calls sendResponse in the same step and changes      *)
(* nothing else: popupSendResponse, creatingOffscreenPromise,              *)
(* chrome.storage and the commands sent to the offscreen document are the  *)
(* same before and after.                                                  *)
C21_PingNoSideEffect ==
  [][(ping = "sent" /\ ping' # "sent")
     => (/\ ping' = "pong"
         /\ popupSendResponse' = popupSendResponse
         /\ creatingOffscreenPromise' = creatingOffscreenPromise
         /\ storage' = storage
         /\ c2h' = c2h /\ initSent' = initSent
         /\ replies' = replies /\ c2p' = c2p)]_vars

C21_Witness ==
  /\ ping = "pong"
  /\ popupSendResponse # 0
  /\ c2h # <<>> /\ Head(c2h) = Cmd("RUN", popupSendResponse)
  /\ nreq = 1 /\ faults = 0

(* C22: a setupOffscreenDocument() call that awaited an outstanding        *)
(* creatingOffscreenPromise probes for the offscreen document again when   *)
(* the promise has resolved, and its LOAD_MODEL handler reports success    *)
(* only with a document alive.                                             *)
C22_WaiterReprobes ==
  [][\A r \in ReqIds :
       (/\ req[r].pc = "awaitTicket" /\ creation[req[r].tk] = "ok"
        /\ req'[r].pc \notin {"awaitTicket", "killed"})
       => (/\ hasGetContexts => req'[r].pc = "probing"
           /\ replies'[r] # replies[r] => hostAlive)]_vars

(* C23: creatingOffscreenPromise holds at most one createDocument promise, *)
(* that of the one handler inside the try block, and only while that       *)
(* promise has not settled; it is null again in the step in which the      *)
(* promise settles, fulfilled or rejected.                                 *)
C23_TicketOnlyWhileCreating ==
  /\ [](/\ Cardinality({r \in ReqIds : req[r].pc = "creating"}) <= 1
        /\ creatingOffscreenPromise # 0
           => (/\ creation[creatingOffscreenPromise] \in {"pending", "ok", "err"}
               /\ \E r \in ReqIds : req[r].pc = "creating" /\ req[r].tk = creatingOffscreenPromise)
        /\ \A r \in ReqIds : req[r].pc = "creating" => creatingOffscreenPromise = req[r].tk)
  /\ [][\A c \in ReqIds :
          (/\ creatingOffscreenPromise = c
           /\ creation[c] \in {"ok", "err"} /\ creation'[c] = "settled")
          => creatingOffscreenPromise' = 0]_vars

C23_Witness ==
  /\ createFailed /\ faults = 0
  /\ ncreate = 2 /\ creation = [c \in ReqIds |-> "settled"]
  /\ creatingOffscreenPromise = 0
  /\ hostAlive
  /\ replies[1] = <<Payload("fail", 0, "")>> /\ replies[2] = <<Payload("started", 0, "")>>

(* C24: a LOAD_MODEL sent after the offscreen document was closed from     *)
(* outside, while none exists, leads to a document being alive and the     *)
(* success reply to that request, unless the browser rejects a             *)
(* createDocument call or something else is closed or restarted            *)
(* meanwhile: nothing left by the closed document keeps                    *)
(* setupOffscreenDocument() from obtaining a new one.                      *)
C24_SelfHeals ==
  \A r \in ReqIds :
    (/\ req[r].kind = "LOAD" /\ req[r].pc = "sent"
     /\ hostDestroyed /\ ~hostAlive /\ faults = 1 /\ ~createFailed)
    ~> (\/ hostAlive /\ \E i \in 1..Len(replies[r]) : replies[r][i].t = "started"
        \/ createFailed
        \/ faults > 1)

(* C25: right after background.js has handled OFFSCREEN_MODEL_RESPONSE,    *)
(* OFFSCREEN_MODEL_RUN_ERROR or OFFSCREEN_MODEL_NOT_LOADED_FOR_PROMPT,     *)
(* popupSendResponse is null, whether the stored handle took the payload   *)
(* or threw.                                                               *)
C25_HandleConsumed ==
  [][(/\ h2c # <<>> /\ h2c' = Tail(h2c)
      /\ Head(h2c).t \in {"RESPONSE", "RUN_ERROR", "NOT_LOADED"})
     => popupSendResponse' = 0]_vars

C25_Witness ==
  /\ nreq = 1 /\ req[1].kind = "SEND" /\ req[1].pc = "done" /\ req[1].cb = "dead"
  /\ replies[1] = <<>>
  /\ popupSendResponse = 0
  /\ hostAlive /\ c2h = <<>> /\ h2c = <<>> /\ wjobs = <<>>

(* C26: a job result or job error handled while popupSendResponse is null  *)
(* is dropped: no sendResponse is called, nothing is broadcast, nothing is *)
(* sent to the offscreen document, and chrome.storage, the ticket and the  *)
(* (null) handle stay as they were.                                        *)
C26_DroppedWithoutHandle ==
  [][(/\ h2c # <<>> /\ h2c' = Tail(h2c)
      /\ Head(h2c).t \in {"RESPONSE", "RUN_ERROR", "NOT_LOADED"}
      /\ popupSendResponse = 0)
     => (/\ replies' = replies /\ c2p' = c2p /\ c2h' = c2h
         /\ storage' = storage
         /\ creatingOffscreenPromise' = creatingOffscreenPromise
         /\ popupSendResponse' = 0)]_vars

C26_Witness ==
  /\ faults = 0 /\ nreq = 2
  /\ \A r \in 1..2 : req[r].kind = "SEND" /\ req[r].pc = "done"
  /\ replies[1] = <<>> /\ replies[2] = <<Payload("result", 1, "")>>
  /\ popupSendResponse = 0
  /\ hostAlive /\ c2h = <<>> /\ h2c = <<>> /\ wjobs = <<>>

(* C27: when the stored handle throws on a job result or error (the reply  *)
(* channel is closed), nothing is delivered, the handle is cleared all the *)
(* same and nothing else changes in background.js: the handlers still      *)
(* running and the messages handled afterwards go on as usual.             *)
C27_ThrowSwallowed ==
  [][(/\ h2c # <<>> /\ h2c' = Tail(h2c)
      /\ Head(h2c).t \in {"RESPONSE", "RUN_ERROR", "NOT_LOADED"}
      /\ popupSendResponse # 0 /\ replies' = replies)
     => (/\ popupSendResponse' = 0
         /\ req' = req /\ storage' = storage /\ lastCoordWrite' = lastCoordWrite
         /\ creatingOffscreenPromise' = creatingOffscreenPromise
         /\ c2h' = c2h /\ c2p' = c2p)]_vars

C27_Witness ==
  /\ faults = 1 /\ nreq = 2
  /\ \A r \in 1..2 : req[r].kind = "SEND" /\ req[r].pc = "done"
  /\ req[1].cb = "dead" /\ replies[1] = <<>>
  /\ replies[2] = <<Payload("result", 2, "")>>
  /\ popupSendResponse = 0 /\ hostAlive

(* C28: when updatePopupStatus finds a stored handle and the handle        *)
(* throws, popupSendResponse becomes null, the same payload goes out with  *)
(* chrome.runtime.sendMessage instead (to the popup if one is open; with   *)
(* no receiver the rejection is ignored), and the status is written to     *)
(* chrome.storage all the same.  The case: a status event of the           *)
(* offscreen document, or a LOAD_MODEL, handled with a handle stored that  *)
(* takes nothing.                                                          *)
C28_FallbackToBroadcast ==
  [][LET Fallback(st) ==
           /\ popupSendResponse' = 0
           /\ storage'.modelStatus = st /\ lastCoordWrite' = st
           /\ IF popupOpen
              THEN /\ Len(c2p') = Len(c2p) + 1
                   /\ c2p'[Len(c2p')].status = st
                   /\ c2p'[Len(c2p')].msg = storage'.modelStatusMessage
              ELSE c2p' = c2p
     IN /\ (/\ h2c # <<>> /\ h2c' = Tail(h2c)
            /\ Head(h2c).t \in {"LOADED", "INIT_ERROR", "ALREADY"}
            /\ popupSendResponse # 0 /\ replies' = replies)
           => Fallback(CASE Head(h2c).t = "LOADED" -> "loaded"
                         [] Head(h2c).t = "INIT_ERROR" -> "error"
                         [] Head(h2c).t = "ALREADY" -> "loading")
        /\ \A r \in ReqIds :
             (/\ req[r].kind = "LOAD" /\ req[r].pc = "sent" /\ req'[r].pc # "sent"
              /\ popupSendResponse # 0 /\ replies' = replies)
             => Fallback("loading")]_vars

C28_Witness ==
  /\ faults = 1 /\ popupOpen
  /\ req[1].kind = "LOAD" /\ replies[1] = <<Payload("started", 0, "")>>
  /\ req[2].kind = "SEND" /\ req[2].pc = "done" /\ req[2].cb = "dead" /\ replies[2] = <<>>
  /\ popupSendResponse = 0
  /\ c2h = <<Cmd("RUN", 2)>>
  /\ storage.modelStatus = "loaded" /\ lastCoordWrite = "loaded"
  /\ c2p # <<>> /\ c2p[Len(c2p)].status = "loaded"

(* C29: handling OFFSCREEN_ALREADY_INITIALIZING writes the status          *)
(* 'loading' to chrome.storage and announces it, whatever the status was   *)
(* before ('error' included), and sends no command to the offscreen        *)
(* document.                                                               *)
C29_AlreadyMeansLoading ==
  [][(h2c # <<>> /\ h2c' = Tail(h2c) /\ Head(h2c).t = "ALREADY")
     => (/\ storage' = [modelStatus |-> "loading", modelStatusMessage |-> Msg("inprogress", 0)]
         /\ lastCoordWrite' = "loading"
         /\ c2h' = c2h /\ initSent' = initSent
         /\ creatingOffscreenPromise' = creatingOffscreenPromise
         /\ ncreate' = ncreate)]_vars

C29_Witness ==
  /\ req[1].kind = "LOAD" /\ replies[1] = <<Payload("started", 0, "")>>
  /\ req[2].kind = "LOAD" /\ replies[2] = <<Payload("fail", 0, "")>>
  /\ initSent = 1 /\ h2c = <<>>
  /\ storage = [modelStatus |-> "loading", modelStatusMessage |-> Msg("inprogress", 0)]
  /\ lastCoordWrite = "loading"

(* C30: stdout(c) appends c to stdoutBuffer; when c is a punctuation or    *)
(* whitespace code it posts exactly one chunk, the text of the whole       *)
(* buffer with c at its end, and empties the buffer; otherwise it posts    *)
(* nothing.  So every chunk posted holds exactly one such code, as its     *)
(* last unit.                                                              *)
C30_FlushOnBoundary ==
  /\ [][nwritten' = nwritten + 1
        => LET c == written'[Len(written')]
           IN IF c \in PUNCTUATION \cup WHITESPACE
              THEN /\ chunks' = Append(chunks, decode(Append(stdoutBuffer, c)))
                   /\ chunks'[Len(chunks')][Len(stdoutBuffer) + 1] = c
                   /\ stdoutBuffer' = <<>>
              ELSE /\ chunks' = chunks
                   /\ stdoutBuffer' = Append(stdoutBuffer, c)]_vars
  /\ [](\A i \in 1..Len(chunks) :
          /\ chunks[i] # <<>>
          /\ \A j \in 1..Len(chunks[i]) :
               chunks[i][j] \in PUNCTUATION \cup WHITESPACE <=> j = Len(chunks[i]))

C30_Witness ==
  /\ wpc = "running"
  /\ written = <<97, 195, 46, 32, 98>>
  /\ chunks = << <<97, 65533, 46>>, <<32>> >>
  /\ stdoutBuffer = <<98>>

(* C31: in the offscreen document at most one engine initialisation is in  *)
(* progress and none is started once the model is loaded: an               *)
(* OFFSCREEN_INIT_MODEL handled while initialising yields only             *)
(* OFFSCREEN_ALREADY_INITIALIZING, one handled after loading yields only   *)
(* OFFSCREEN_MODEL_LOADED, and neither constructs an engine; an engine is  *)
(* constructed only when none is loading and the model is not loaded.      *)
C31_SingleInitialisation ==
  /\ [][(hostAlive /\ hostAlive' /\ c2h # <<>> /\ c2h' = Tail(c2h) /\ Head(c2h).t = "INIT"
           /\ (isInitializing \/ modelLoaded))
        => /\ h2c' = Append(h2c, Ev(IF isInitializing THEN "ALREADY" ELSE "LOADED", 0, 0, <<>>))
           /\ ninit' = ninit
           /\ engine' = engine
           /\ llamaCppInstance' = llamaCppInstance
           /\ isInitializing' = isInitializing
           /\ modelLoaded' = modelLoaded]_vars
  /\ [][(hostAlive /\ hostAlive' /\ ninit' # ninit)
        => /\ ninit' = ninit + 1
           /\ ~isInitializing /\ ~modelLoaded /\ engine.st # "loading"
           /\ isInitializing']_vars
  /\ [](engine.st = "loading" => isInitializing /\ ~modelLoaded)

C31_Witness ==
  /\ hostAlive /\ ncreate = 1 /\ faults = 0
  /\ modelLoaded /\ ~isInitializing
  /\ initSent = 2 /\ ninit = 1 /\ c2h = <<>>
  /\ h2c = <<Ev("LOADED", 0, 0, <<>>), Ev("LOADED", 0, 0, <<>>)>>

(* C32: the offscreen document starts a run on the engine only when the    *)
(* model is loaded and no initialisation is in progress; an                *)
(* OFFSCREEN_RUN_PROMPT handled in any other state starts no run and       *)
(* sends exactly one OFFSCREEN_MODEL_NOT_LOADED_FOR_PROMPT event.          *)
C32_RunOnlyWhenLoaded ==
  /\ [][(hostAlive /\ hostAlive' /\ c2h # <<>> /\ c2h' = Tail(c2h) /\ Head(c2h).t = "RUN")
        => IF modelLoaded /\ ~isInitializing
           THEN wjobs' = Append(wjobs, Head(c2h).job) /\ h2c' = h2c
           ELSE /\ wjobs' = wjobs
                /\ h2c' = Append(h2c, Ev("NOT_LOADED", Head(c2h).job, 0, <<>>))]_vars
  /\ [][(hostAlive /\ hostAlive' /\ Len(wjobs') > Len(wjobs)) => modelLoaded /\ ~isInitializing]_vars
  /\ [](wjobs # <<>> => modelLoaded /\ ~isInitializing)

C32_Witness ==
  /\ hostAlive /\ isInitializing /\ ~modelLoaded
  /\ wjobs = <<>> /\ c2h = <<>>
  /\ \E r \in ReqIds : h2c = <<Ev("NOT_LOADED", r, 0, <<>>)>>

(* C33: every initialisation the offscreen document starts ends with       *)
(* OFFSCREEN_MODEL_LOADED or OFFSCREEN_INIT_ERROR: when the engine's load  *)
(* ends, by success or by failure, one of the two events is sent and       *)
(* isInitializing is reset, so that the persisted status leaves 'loading'  *)
(* and a later LOAD_MODEL can start a new initialisation.                  *)
C33_InitialisationEnds ==
  [][(hostAlive /\ hostAlive' /\ engine.st = "loading" /\ engine'.st # "loading")
     => /\ \E t \in {"LOADED", "INIT_ERROR"} : h2c' = Append(h2c, Ev(t, 0, 0, <<>>))
        /\ ~isInitializing']_vars

(* C34: the response the offscreen document relays for a job               *)
(* (OFFSCREEN_MODEL_RESPONSE) is the concatenation, in order, of all the   *)
(* chunks received for that job and holds no chunk of another job, also    *)
(* when an OFFSCREEN_RUN_PROMPT is handled while the chunks of an earlier  *)
(* job are still being received.                                           *)
C34_ResponseIsOwnChunks ==
  [][(hostAlive /\ hostAlive' /\ build = 1 /\ wjobs # <<>> /\ wjobs' = Tail(wjobs)
        /\ Len(h2c') = Len(h2c) + 1 /\ h2c'[Len(h2c')].t = "RESPONSE")
     => /\ h2c'[Len(h2c')].job = Head(wjobs)
        /\ h2c'[Len(h2c')].resp = [i \in 1..nchunk |-> Head(wjobs)]]_vars

(* C35: the onInstalled handler sets the persisted status to not_loaded    *)
(* only when the reason is 'install'; for 'update' and 'chrome_update' it  *)
(* leaves the persisted status and status message as they are.             *)
C35_StatusResetOnlyOnInstall ==
  [][(Len(installLog') = Len(installLog) + 1 /\ installLog'[Len(installLog')] # "removed")
     => IF installLog'[Len(installLog')] = "install"
        THEN storage' = [modelStatus |-> "not_loaded", modelStatusMessage |-> Msg("installed", 0)]
        ELSE storage' = storage]_vars

C35_Witness ==
  /\ installLog = <<"install", "update", "chrome_update">>
  /\ storage = [modelStatus |-> "loaded", modelStatusMessage |-> Msg("ready", 0)]
  /\ build = 1 /\ modelPath = "current"

(* C36 (as stated): loadBinaryResource invokes its callback at most once   *)
(* per call; on a cache hit it passes the cached bytes and sends no        *)
(* request; on a miss it downloads, stores the response in the cache under *)
(* the URL, and only then invokes the callback with the downloaded bytes.  *)
C36_StoredBeforeCallback ==
  \A k \in LoaderCalls :
    /\ Len(lbr[k].cb) <= 1
    /\ lbr[k].hit => lbr[k].xhr = 0 /\ (lbr[k].cb # <<>> => lbr[k].cb = <<lbr[k].got>>)
    /\ (~lbr[k].hit /\ lbr[k].cb # <<>>)
         => /\ lbr[k].xhr = 1
            /\ lbr[k].cb = <<lbr[k].got>>
            /\ lbr[k].stored = lbr[k].got

(* C36 (amended): the same, the response being stored before the callback  *)
(* is invoked whenever the Cache API is available; without the Cache API   *)
(* every call downloads and invokes the callback without storing.          *)
C36_StoredBeforeCallbackIfCache ==
  /\ [](\A k \in LoaderCalls :
          /\ Len(lbr[k].cb) <= 1
          /\ lbr[k].hit => lbr[k].xhr = 0 /\ (lbr[k].cb # <<>> => lbr[k].cb = <<lbr[k].got>>)
          /\ (~lbr[k].hit /\ lbr[k].cb # <<>>)
               => /\ lbr[k].xhr = 1
                  /\ lbr[k].cb = <<lbr[k].got>>
                  /\ lbr[k].got \in Bodies
                  /\ IF cachesApi THEN lbr[k].stored = lbr[k].got ELSE lbr[k].stored = 0)
  /\ [][\A k \in LoaderCalls :
          /\ (lbr[k].pc = "match" /\ lbr'[k].pc # "match" /\ cacheStore # 0)
               => lbr'[k].hit /\ lbr'[k].got = cacheStore
          /\ lbr'[k].stored # lbr[k].stored => cacheStore' = lbr'[k].stored /\ lbr[k].cb = <<>>]_vars

C36_Witness ==
  /\ cachesApi
  /\ lbr[1].pc = "done" /\ ~lbr[1].hit /\ lbr[1].xhr = 1 /\ lbr[1].stored = 1 /\ lbr[1].cb = <<1>>
  /\ lbr[2].pc = "done" /\ lbr[2].hit /\ lbr[2].xhr = 0 /\ lbr[2].cb = <<1>>
  /\ cacheStore = 1

(* C37: each sendResponse callback background.js stores in                 *)
(* popupSendResponse is invoked at most once in its lifetime, over any     *)
(* sequence of status events and job events handled while it is stored.    *)
C37_HandleInvokedOnce ==
  [][\A r \in ReqIds :
       (popupSendResponse = r /\ replies'[r] # replies[r]) => Len(replies'[r]) = 1]_vars

(* C38: each LlamaCpp.generate() call resolves with exactly the            *)
(* concatenation of the chunks emitted for its own run, and only when its  *)
(* own run has completed; once every generate() call made has resolved,    *)
(* the write and completion callbacks are again the ones installed before  *)
(* the first call.  Also when a second call is made before the first       *)
(* completes.                                                              *)
C38_ResolvesWithOwnRun ==
  /\ \A k \in GenCalls :
       gen[k].pc = "resolved"
         => /\ gen[k].completed
            /\ gen[k].result = [i \in 1..gen[k].emitted |-> k]
  /\ (\A k \in GenCalls : gen[k].pc \in {"idle", "resolved"})
       => write_result_callback = 0 /\ on_complete_callback = 0

(* C39: a generate() call whose run completed successfully never later     *)
(* causes the worker to be terminated: its timeout has no effect once the  *)
(* completion event was handled, and the load timeout has no effect once   *)
(* load() has resolved.                                                    *)
C39_TimeoutsInertAfterSuccess ==
  [][/\ \A k \in GenCalls :
          (gen[k].timer = "armed" /\ gen'[k].timer = "fired" /\ gen[k].pc = "resolved" /\ gen[k].completed)
            => worker' = worker /\ gen'[k].pc = "resolved" /\ wruns' = wruns
     /\ (loadTimer = "armed" /\ loadTimer' = "fired" /\ loadPromise = "resolved")
            => loadPromise' = "resolved" /\ worker' = worker]_vars

(* C40: for every range request on an existing file of size S the server   *)
(* answers 206 with Content-Range start-end/S and Content-Length =         *)
(* end - start + 1, end being S - 1 when omitted, and that Content-Length  *)
(* is an integer between 1 and S, whatever start and end the header        *)
(* carries (start > end, end >= S, a missing start).                       *)
C40_RangeLengthWithinFile ==
  (httpRes.status # 0 /\ httpReq.size > 0 /\ httpReq.hasRange)
    => /\ httpRes.status = 206
       /\ httpRes.size = httpReq.size
       /\ ~httpRes.start.nan /\ ~httpRes.end.nan /\ ~httpRes.length.nan
       /\ httpRes.length.v = httpRes.end.v - httpRes.start.v + 1
       /\ httpRes.length.v \in 1..httpReq.size
       /\ Len(httpReq.range[2]) = 0 => httpRes.end = Num(httpReq.size - 1)

====
